---------------------------- MODULE Spec2Model ----------------------------
(***************************************************************************)
(* Gainly_Avatars: the avatar lifecycle coordinator (services.AvatarService)*)
(* driving the blob store (clients.R2Client) and the metadata store        *)
(* (clients.RedisClient).                                                  *)
(*                                                                         *)
(* Every request runs in its own goroutine; the coordinator holds no       *)
(* shared state, so the only shared state is the content of the two        *)
(* stores.  One step of a request is one external call: the call, its      *)
(* effect on the store and its return are one atomic step, and the steps   *)
(* of concurrent requests interleave freely.  An external call that        *)
(* returns an error had no effect on the store.  A request's context can   *)
(* become done (the caller disconnects, a deadline elapses) at any time:   *)
(* the first call made after that, and every later call of the request,    *)
(* returns the context's error.                                            *)
(***************************************************************************)
EXTENDS Integers, Sequences, FiniteSets

(* ------------------------------ bounds --------------------------------- *)

\* Requests served concurrently (goroutines of the HTTP server).
NumProcs == 2

\* Operations started in one behaviour in which external calls can fail.
MaxOps == 2

\* Operations started in one behaviour in which no external call fails.
MaxOpsNoFault == 4

\* External calls that fail upstream, plus contexts that become done, in one
\* behaviour.
MaxFaults == 3

\* Operations started in one behaviour with batch lookups.
MaxOpsBatch == 2

\* External calls that fail, plus contexts that become done, in one behaviour
\* with batch lookups.
MaxFaultsBatch == 1

\* Operations started in one behaviour in which no external call fails and
\* the operations that returned are recorded.
MaxOpsRace == 3

\* Operations called one after the other in one behaviour.
MaxOpsSeq == 3

\* External calls that fail, plus contexts that become done, in one behaviour
\* of operations called one after the other.
MaxFaultsSeq == 1

\* Operations called one after the other with different payloads.
MaxOpsTrip == 3

\* Upstream failures and cancellations among them.
MaxFaultsTrip == 1

\* Operations the HTTP requests can start.
MaxOpsHttp == 2

\* Upstream failures and cancellations while HTTP requests are served.
MaxFaultsHttp == 1

\* Operations of all four kinds started in one behaviour.
MaxOpsAll == 2

\* Upstream failures and cancellations among them.
MaxFaultsAll == 1

\* Adds and DeleteByOwners of different owners started in one behaviour.
MaxOpsOwners == 2

\* Upstream failures and cancellations among them.
MaxFaultsOwners == 1

\* Bytes that follow the five bytes of the frame header in a binary response
\* of the identity verifier.
MaxPayload == 2

\* Characters of a base64 response of the identity verifier.
MaxText == 8

Procs == 1..NumProcs

\* The guids one behaviour can generate: at most one for each operation.
MaxGuids == IF MaxOps > MaxOpsNoFault THEN MaxOps ELSE MaxOpsNoFault

\* uuid.New() never returns the same value twice: the guids are numbered in
\* the order of their generation.
Guids == 1..MaxGuids

Owners == {"alice", "bob"}

ContentTypes == {"image/jpeg"}

Sizes == {1024}

Filenames == {"pic.jpg"}

\* The bytes of an uploaded file.
Files == {"jpeg bytes"}

(* ------------------------------ values --------------------------------- *)

\* The empty string AddAvatar returns beside an error.
NoGuid == 0

\* No object under avatars/<guid>, no value under avatar:<guid>.
Absent == [present |-> FALSE]

\* No value under username:<username> (redis.Nil on Get).
NoMapping == 0

NoArgs ==
    [username |-> "", file |-> "", filename |-> "", contentType |-> "",
     size |-> 0]

\* The lifetime in seconds of the URLs the coordinator asks for.
ExpiresIn == 3600

\* The empty string the lookups return beside an error.
NoURL == [key |-> NoGuid, expires |-> 0]

\* No call of the gRPC-Web client is being made.
NoReply ==
    [method |-> "none", stage |-> "none", status |-> 0, contentType |-> "",
     body |-> <<>>, user |-> "", err |-> "", low |-> 0, high |-> 0,
     len |-> 0]

\* No user: the *pb.UserResponse a request's context does not hold.
NoUser == ""

\* No file part in a multipart form.
NoFile ==
    [present |-> FALSE, content |-> "", filename |-> "", contentType |-> "",
     size |-> 0]

\* A request without a body.  url is the url field of a JSON body; remote is
\* what http.Get(url) gets: nothing ("none", "fail"), or a response.
NoBody == [kind |-> "none", field |-> "absent", usernames |-> <<>>,
           file |-> NoFile, url |-> "", remote |-> "none"]

\* A goroutine that serves no HTTP request.
NoRequest ==
    [method |-> "", path |-> "", header |-> <<>>, query |-> "",
     body |-> NoBody, stage |-> "none", handler |-> "", verifier |-> <<>>,
     user |-> NoUser, handled |-> FALSE, service |-> FALSE, status |-> 0,
     error |-> ""]

\* Nothing has returned yet.
NoReturn ==
    [kind |-> "none", username |-> "", guid |-> NoGuid, calls |-> <<>>,
     warnings |-> {}, result |-> [guid |-> NoGuid, err |-> ""]]

VARIABLES
    blobs,       \* R2 bucket: guid -> object under avatars/<guid>
    metadata,    \* Redis: guid -> value under avatar:<guid>
    mapping,     \* Redis: username -> value under username:<username>
    pc,          \* per request: the external call it is about to make
    kind,        \* per request: "none", "add" or "delete"
    args,        \* per request: the arguments of the operation
    guid,        \* per request: the local variable guid (of a batch lookup:
                 \* the local variables guidMap and result)
    ctxDone,     \* per request: ctx.Done() is closed
    calls,       \* per request: the external calls made, with their outcome
    warnings,    \* per request: the warnings printed with fmt.Printf
    returned,    \* the operation that returned last, and what it returned
    nextGuid,    \* the next value of uuid.New()
    opsLeft,     \* the operations that can still start
    faultsLeft,  \* the upstream failures and cancellations that can still occur
    failedAdds,  \* history: guids of the Adds that returned an error
    history,     \* history: the operations that returned, in that order
    request,     \* per goroutine: the HTTP request it is serving, how far
                 \* it has got, and the response written to it
    reply        \* the response of the identity verifier to a call of the
                 \* gRPC-Web client, and what the call made of it

vars == <<blobs, metadata, mapping, pc, kind, args, guid, ctxDone, calls,
          warnings, returned, nextGuid, opsLeft, faultsLeft, failedAdds,
          history, request, reply>>

stores == <<blobs, metadata, mapping>>

\* What the coordinator does not touch: the record of the operations that
\* returned, the HTTP surface, and the gRPC-Web client.
surface == <<history, request, reply>>

(* --------------------------- external calls ---------------------------- *)

\* What an external call made by request p can return: the context's error
\* once the context is done, else success, an upstream error, or the
\* context's error when the context became done since the previous call.
Outcomes(p) ==
    IF ctxDone[p] THEN {"cancelled"}
    ELSE {"ok"} \cup (IF faultsLeft > 0 THEN {"fail", "cancelled"} ELSE {})

Failed(out) == out # "ok"

\* What an outcome takes from the faults that can still occur.
Fault(p, out) ==
    IF out = "fail" \/ (out = "cancelled" /\ ~ctxDone[p]) THEN 1 ELSE 0

\* UploadAvatar with no ContentType in the PutObject: the object gets the
\* bucket's default type.
UploadAvatarUntyped(b, g, file, contentType, size, out) ==
    IF out = "ok"
    THEN [b EXCEPT ![g] = [present |-> TRUE, content |-> file,
                            contentType |-> "application/octet-stream",
                            size |-> size]]
    ELSE b

\* R2Client.UploadAvatar: PutObject under avatars/<guid> with Body file,
\* ContentType contentType and ContentLength size.
UploadAvatar(b, g, file, contentType, size, out) ==
    IF out = "ok"
    THEN [b EXCEPT ![g] = [present |-> TRUE, content |-> file,
                            contentType |-> contentType, size |-> size]]
    ELSE b

\* DeleteAvatar with the DeleteObject request never sent.
DeleteAvatarSkipped(b, g, out) == b

\* R2Client.DeleteAvatar: DeleteObject of avatars/<guid>; deleting a key
\* that does not exist succeeds.
DeleteAvatar(b, g, out) ==
    IF out = "ok" THEN [b EXCEPT ![g] = Absent] ELSE b

\* SetAvatarMetadata with the field Username left out of the json.
SetAvatarMetadataNoUsername(m, md, out) ==
    IF out = "ok"
    THEN [m EXCEPT ![md.guid] = [present |-> TRUE, guid |-> md.guid,
                                  username |-> "",
                                  filename |-> md.filename,
                                  size |-> md.size,
                                  mimeType |-> md.mimeType]]
    ELSE m

\* RedisClient.SetAvatarMetadata: SET avatar:<guid> <json of the record>.
SetAvatarMetadata(m, md, out) ==
    IF out = "ok"
    THEN [m EXCEPT ![md.guid] = [present |-> TRUE, guid |-> md.guid,
                                  username |-> md.username,
                                  filename |-> md.filename,
                                  size |-> md.size,
                                  mimeType |-> md.mimeType]]
    ELSE m

\* DeleteAvatarMetadata deleting the records of every avatar of the owner of
\* avatar:<guid>.
DeleteAvatarMetadataOfOwner(m, g, out) ==
    IF out = "ok"
    THEN [h \in DOMAIN m |->
             IF h = g \/ (m[h].present /\ m[g].present
                          /\ m[h].username = m[g].username)
             THEN Absent ELSE m[h]]
    ELSE m

\* DeleteAvatarMetadata deleting under another key: avatar:<guid> stays.
DeleteAvatarMetadataSkipped(m, g, out) == m

\* RedisClient.DeleteAvatarMetadata: DEL avatar:<guid>.
DeleteAvatarMetadata(m, g, out) ==
    IF out = "ok" THEN [m EXCEPT ![g] = Absent] ELSE m

\* SetGUIDByUsername writing under the key "username:" for every username:
\* all owners share one mapping.
SetGUIDByUsernameShared(mp, username, g, out) ==
    IF out = "ok" THEN [u \in DOMAIN mp |-> g] ELSE mp

\* SetGUIDByUsername with SETNX for SET: a mapping that exists is kept.
SetGUIDByUsernameIfAbsent(mp, username, g, out) ==
    IF out = "ok" /\ mp[username] = NoMapping
    THEN [mp EXCEPT ![username] = g]
    ELSE mp

\* SetGUIDByUsername reporting an error for a SET that was applied.
SetGUIDByUsernameAlways(mp, username, g, out) == [mp EXCEPT ![username] = g]

\* RedisClient.SetGUIDByUsername: SET username:<username> <guid>.
SetGUIDByUsername(mp, username, g, out) ==
    IF out = "ok" THEN [mp EXCEPT ![username] = g] ELSE mp

\* DeleteUsernameMapping deleting under another key: username:<username>
\* stays.
DeleteUsernameMappingSkipped(mp, username, out) == mp

\* RedisClient.DeleteUsernameMapping: DEL username:<username>.
DeleteUsernameMapping(mp, username, out) ==
    IF out = "ok" THEN [mp EXCEPT ![username] = NoMapping] ELSE mp

\* RedisClient.GetGUIDByUsername: the guid, or an error: "username not found"
\* on redis.Nil, "failed to get guid by username" on any other error.
GetGUIDByUsername(mp, username, out) ==
    IF out # "ok"
    THEN [guid |-> NoGuid, err |-> "failed to get guid by username"]
    ELSE IF mp[username] = NoMapping
         THEN [guid |-> NoGuid, err |-> "username not found"]
         ELSE [guid |-> mp[username], err |-> ""]

\* R2Client.GetAvatarPresignedURL: a URL for GetObject of avatars/<guid>,
\* valid for expiresIn seconds.  The URL is signed locally: no request goes
\* to R2 and the object is not looked at.
GetAvatarPresignedURL(g, expiresIn, out) ==
    IF out = "ok"
    THEN [url |-> [key |-> g, expires |-> expiresIn], err |-> ""]
    ELSE [url |-> NoURL, err |-> "failed to generate presigned URL"]

\* What PresignGetObject can return for request p: as it is signed locally it
\* can also succeed when the context is done.
PresignOutcomes(p) == Outcomes(p) \cup {"ok"}

\* One entry of a request's record of calls.  rollback marks a compensating
\* delete of AddAvatar.
Call(name, out, rollback) == [call |-> name, out |-> out, rollback |-> rollback]

\* An entry of the record of calls of a batch lookup: the call was made for
\* username and returned g (NoGuid beside an error).
CallFor(name, out, username, g) ==
    [call |-> name, out |-> out, rollback |-> FALSE, username |-> username,
     guid |-> g]

(* ------------------------------- Init ---------------------------------- *)

\* The stores are empty and no request is being served.
Start ==
    /\ blobs = [g \in Guids |-> Absent]
    /\ metadata = [g \in Guids |-> Absent]
    /\ mapping = [u \in Owners |-> NoMapping]
    /\ pc = [p \in Procs |-> "idle"]
    /\ kind = [p \in Procs |-> "none"]
    /\ args = [p \in Procs |-> NoArgs]
    /\ guid = [p \in Procs |-> NoGuid]
    /\ ctxDone = [p \in Procs |-> FALSE]
    /\ calls = [p \in Procs |-> <<>>]
    /\ warnings = [p \in Procs |-> {}]
    /\ returned = NoReturn
    /\ nextGuid = 1
    /\ failedAdds = {}
    /\ history = <<>>
    /\ request = [p \in Procs |-> NoRequest]
    /\ reply = NoReply

Init ==
    /\ Start
    /\ opsLeft = MaxOps
    /\ faultsLeft = MaxFaults

\* The behaviours in which no external call fails and no context is done.
InitNoFault ==
    /\ Start
    /\ opsLeft = MaxOpsNoFault
    /\ faultsLeft = 0

(* ------------------------- the steps of a request ---------------------- *)

InFlight(p) == pc[p] # "idle"

Quiescent == \A p \in Procs : ~InFlight(p)

\* A goroutine starts serving an operation.
Begin(p, k, a, g, first) ==
    /\ ~InFlight(p)
    /\ opsLeft > 0
    /\ opsLeft' = opsLeft - 1
    /\ pc' = [pc EXCEPT ![p] = first]
    /\ kind' = [kind EXCEPT ![p] = k]
    /\ args' = [args EXCEPT ![p] = a]
    /\ guid' = [guid EXCEPT ![p] = g]
    /\ UNCHANGED <<stores, ctxDone, calls, warnings, returned, faultsLeft,
                   failedAdds>>

\* The operation made call c, holds g in guid, has printed the warnings w,
\* and goes on to label.
Continue(p, label, c, g, w) ==
    /\ pc' = [pc EXCEPT ![p] = label]
    /\ calls' = [calls EXCEPT ![p] = Append(@, c)]
    /\ ctxDone' = [ctxDone EXCEPT ![p] = @ \/ c.out = "cancelled"]
    /\ guid' = [guid EXCEPT ![p] = g]
    /\ warnings' = [warnings EXCEPT ![p] = w]
    /\ faultsLeft' = faultsLeft - Fault(p, c.out)
    /\ UNCHANGED <<kind, args, returned, nextGuid, opsLeft>>

\* The operation made call c, has printed the warnings w, and returns
\* (g, err); its goroutine ends.
Return(p, c, w, g, err) ==
    /\ returned' = [kind |-> kind[p], username |-> args[p].username,
                    guid |-> guid[p], calls |-> Append(calls[p], c),
                    warnings |-> w, result |-> [guid |-> g, err |-> err]]
    /\ pc' = [pc EXCEPT ![p] = "idle"]
    /\ kind' = [kind EXCEPT ![p] = "none"]
    /\ args' = [args EXCEPT ![p] = NoArgs]
    /\ guid' = [guid EXCEPT ![p] = NoGuid]
    /\ ctxDone' = [ctxDone EXCEPT ![p] = FALSE]
    /\ calls' = [calls EXCEPT ![p] = <<>>]
    /\ warnings' = [warnings EXCEPT ![p] = {}]
    /\ faultsLeft' = faultsLeft - Fault(p, c.out)
    /\ UNCHANGED <<nextGuid, opsLeft>>

(* ------------------------- AvatarService.AddAvatar --------------------- *)

\* A request calls AddAvatar(ctx, username, file, filename, contentType,
\* size): guid := uuid.New().String().
StartAdd(p, a) ==
    /\ Begin(p, "add", a, nextGuid, "upload")
    /\ nextGuid' = nextGuid + 1

\* AddAvatar with the error of UploadAvatar dropped: it goes on to the
\* metadata.
AddUploadUnchecked(p) ==
    /\ pc[p] = "upload"
    /\ \E out \in Outcomes(p) :
        /\ blobs' = UploadAvatar(blobs, guid[p], args[p].file,
                                 args[p].contentType, args[p].size, out)
        /\ Continue(p, "setMetadata", Call("UploadAvatar", out, FALSE),
                    guid[p], warnings[p])
    /\ UNCHANGED <<metadata, mapping, failedAdds>>

\* s.r2Client.UploadAvatar(ctx, guid, file, contentType, size); an error is
\* returned as "failed to upload avatar".
AddUpload(p) ==
    /\ pc[p] = "upload"
    /\ \E out \in Outcomes(p) :
        LET c == Call("UploadAvatar", out, FALSE) IN
        /\ blobs' = UploadAvatar(blobs, guid[p], args[p].file,
                                 args[p].contentType, args[p].size, out)
        /\ IF Failed(out)
           THEN /\ Return(p, c, warnings[p], NoGuid, "failed to upload avatar")
                /\ failedAdds' = failedAdds \cup {guid[p]}
           ELSE /\ Continue(p, "setMetadata", c, guid[p], warnings[p])
                /\ UNCHANGED failedAdds
    /\ UNCHANGED <<metadata, mapping>>

\* The record AddAvatar builds for SetAvatarMetadata (UploadedAt, the time
\* of the call, is left out: nothing reads it).
AvatarMetadata(p) ==
    [guid |-> guid[p], username |-> args[p].username,
     filename |-> args[p].filename, size |-> args[p].size,
     mimeType |-> args[p].contentType]

\* AddAvatar with the error of SetAvatarMetadata dropped: it goes on to the
\* mapping.
AddSetMetadataUnchecked(p) ==
    /\ pc[p] = "setMetadata"
    /\ \E out \in Outcomes(p) :
        /\ metadata' = SetAvatarMetadata(metadata, AvatarMetadata(p), out)
        /\ Continue(p, "setMapping", Call("SetAvatarMetadata", out, FALSE),
                    guid[p], warnings[p])
    /\ UNCHANGED <<blobs, mapping, failedAdds>>

\* s.redisClient.SetAvatarMetadata(ctx, metadata); on an error the blob is
\* deleted next.
AddSetMetadata(p) ==
    /\ pc[p] = "setMetadata"
    /\ \E out \in Outcomes(p) :
        /\ metadata' = SetAvatarMetadata(metadata, AvatarMetadata(p), out)
        /\ Continue(p, IF Failed(out) THEN "metadataFailed" ELSE "setMapping",
                    Call("SetAvatarMetadata", out, FALSE), guid[p], warnings[p])
    /\ UNCHANGED <<blobs, mapping, failedAdds>>

\* AddAvatar calling the compensating DeleteAvatar again until it succeeds.
AddMetadataFailedRetry(p) ==
    /\ pc[p] = "metadataFailed"
    /\ \E out \in Outcomes(p) :
        LET c == Call("DeleteAvatar", out, TRUE) IN
        /\ blobs' = DeleteAvatar(blobs, guid[p], out)
        /\ IF Failed(out)
           THEN /\ Continue(p, "metadataFailed", c, guid[p], warnings[p])
                /\ UNCHANGED failedAdds
           ELSE /\ Return(p, c, warnings[p], NoGuid, "failed to save metadata")
                /\ failedAdds' = failedAdds \cup {guid[p]}
    /\ UNCHANGED <<metadata, mapping>>

\* _ = s.r2Client.DeleteAvatar(ctx, guid); return "", "failed to save
\* metadata".  The error of the delete is dropped.
AddMetadataFailed(p) ==
    /\ pc[p] = "metadataFailed"
    /\ \E out \in Outcomes(p) :
        /\ blobs' = DeleteAvatar(blobs, guid[p], out)
        /\ Return(p, Call("DeleteAvatar", out, TRUE), warnings[p], NoGuid,
                  "failed to save metadata")
    /\ failedAdds' = failedAdds \cup {guid[p]}
    /\ UNCHANGED <<metadata, mapping>>

\* s.redisClient.SetGUIDByUsername(ctx, username, guid); on success
\* AddAvatar returns guid, nil.
AddSetMapping(p) ==
    /\ pc[p] = "setMapping"
    /\ \E out \in Outcomes(p) :
        LET c == Call("SetGUIDByUsername", out, FALSE) IN
        /\ mapping' = SetGUIDByUsername(mapping, args[p].username, guid[p], out)
        /\ IF Failed(out)
           THEN Continue(p, "mappingFailed", c, guid[p], warnings[p])
           ELSE Return(p, c, warnings[p], guid[p], "")
    /\ UNCHANGED <<blobs, metadata, failedAdds>>

\* AddAvatar returning after the metadata delete, the blob delete forgotten.
AddMappingFailedNoBlob(p) ==
    /\ pc[p] = "mappingFailed"
    /\ \E out \in Outcomes(p) :
        /\ metadata' = DeleteAvatarMetadata(metadata, guid[p], out)
        /\ Return(p, Call("DeleteAvatarMetadata", out, TRUE), warnings[p],
                  NoGuid, "failed to save username mapping")
    /\ failedAdds' = failedAdds \cup {guid[p]}
    /\ UNCHANGED <<blobs, mapping>>

\* AddAvatar giving up the rollback when the metadata delete failed.
AddMappingFailedChecked(p) ==
    /\ pc[p] = "mappingFailed"
    /\ \E out \in Outcomes(p) :
        LET c == Call("DeleteAvatarMetadata", out, TRUE) IN
        /\ metadata' = DeleteAvatarMetadata(metadata, guid[p], out)
        /\ IF Failed(out)
           THEN /\ Return(p, c, warnings[p], NoGuid,
                          "failed to save username mapping")
                /\ failedAdds' = failedAdds \cup {guid[p]}
           ELSE /\ Continue(p, "mappingFailedBlob", c, guid[p], warnings[p])
                /\ UNCHANGED failedAdds
    /\ UNCHANGED <<blobs, mapping>>

\* _ = s.redisClient.DeleteAvatarMetadata(ctx, guid), its error dropped.
AddMappingFailed(p) ==
    /\ pc[p] = "mappingFailed"
    /\ \E out \in Outcomes(p) :
        /\ metadata' = DeleteAvatarMetadata(metadata, guid[p], out)
        /\ Continue(p, "mappingFailedBlob",
                    Call("DeleteAvatarMetadata", out, TRUE), guid[p],
                    warnings[p])
    /\ UNCHANGED <<blobs, mapping, failedAdds>>

\* _ = s.r2Client.DeleteAvatar(ctx, guid); return "", "failed to save
\* username mapping".
AddMappingFailedBlob(p) ==
    /\ pc[p] = "mappingFailedBlob"
    /\ \E out \in Outcomes(p) :
        /\ blobs' = DeleteAvatar(blobs, guid[p], out)
        /\ Return(p, Call("DeleteAvatar", out, TRUE), warnings[p], NoGuid,
                  "failed to save username mapping")
    /\ failedAdds' = failedAdds \cup {guid[p]}
    /\ UNCHANGED <<metadata, mapping>>

(* ----------------------- AvatarService.DeleteMyAvatar ------------------ *)

\* A request calls DeleteMyAvatar(ctx, username).
StartDelete(p, username) ==
    /\ Begin(p, "delete", [NoArgs EXCEPT !.username = username], NoGuid,
             "getGuid")
    /\ nextGuid' = nextGuid

\* guid, err := s.redisClient.GetGUIDByUsername(ctx, username); any error
\* is returned as "avatar not found for username".
DeleteGetGuid(p) ==
    /\ pc[p] = "getGuid"
    /\ \E out \in Outcomes(p) :
        LET r == GetGUIDByUsername(mapping, args[p].username, out)
            c == Call("GetGUIDByUsername", out, FALSE)
        IN  IF r.err # ""
            THEN Return(p, c, warnings[p], NoGuid,
                        "avatar not found for username")
            ELSE Continue(p, "deleteBlob", c, r.guid, warnings[p])
    /\ UNCHANGED <<stores, failedAdds>>

\* DeleteMyAvatar with the error of DeleteAvatar only printed.
DeleteBlobUnchecked(p) ==
    /\ pc[p] = "deleteBlob"
    /\ \E out \in Outcomes(p) :
        /\ blobs' = DeleteAvatar(blobs, guid[p], out)
        /\ Continue(p, "deleteMetadata", Call("DeleteAvatar", out, FALSE),
                    guid[p], warnings[p])
    /\ UNCHANGED <<metadata, mapping, failedAdds>>

\* s.r2Client.DeleteAvatar(ctx, guid); an error is returned as "failed to
\* delete avatar from R2".
DeleteBlob(p) ==
    /\ pc[p] = "deleteBlob"
    /\ \E out \in Outcomes(p) :
        LET c == Call("DeleteAvatar", out, FALSE) IN
        /\ blobs' = DeleteAvatar(blobs, guid[p], out)
        /\ IF Failed(out)
           THEN Return(p, c, warnings[p], NoGuid,
                       "failed to delete avatar from R2")
           ELSE Continue(p, "deleteMetadata", c, guid[p], warnings[p])
    /\ UNCHANGED <<metadata, mapping, failedAdds>>

\* The warnings after a cleanup call: an error is printed with fmt.Printf.
Warn(w, out, text) == IF Failed(out) THEN w \cup {text} ELSE w

\* DeleteMyAvatar returning the error of DeleteAvatarMetadata.
DeleteMetadataFatal(p) ==
    /\ pc[p] = "deleteMetadata"
    /\ \E out \in Outcomes(p) :
        LET c == Call("DeleteAvatarMetadata", out, FALSE) IN
        /\ metadata' = DeleteAvatarMetadata(metadata, guid[p], out)
        /\ IF Failed(out)
           THEN Return(p, c, warnings[p], NoGuid, "failed to delete metadata")
           ELSE Continue(p, "deleteMapping", c, guid[p], warnings[p])
    /\ UNCHANGED <<blobs, mapping, failedAdds>>

\* s.redisClient.DeleteAvatarMetadata(ctx, guid); an error is printed as a
\* warning and the operation goes on.
DeleteMetadata(p) ==
    /\ pc[p] = "deleteMetadata"
    /\ \E out \in Outcomes(p) :
        /\ metadata' = DeleteAvatarMetadata(metadata, guid[p], out)
        /\ Continue(p, "deleteMapping",
                    Call("DeleteAvatarMetadata", out, FALSE), guid[p],
                    Warn(warnings[p], out, "failed to delete metadata"))
    /\ UNCHANGED <<blobs, mapping, failedAdds>>

\* s.redisClient.DeleteUsernameMapping(ctx, username); an error is printed
\* as a warning; return nil.
DeleteMapping(p) ==
    /\ pc[p] = "deleteMapping"
    /\ \E out \in Outcomes(p) :
        /\ mapping' = DeleteUsernameMapping(mapping, args[p].username, out)
        /\ Return(p, Call("DeleteUsernameMapping", out, FALSE),
                  Warn(warnings[p], out, "failed to delete username mapping"),
                  NoGuid, "")
    /\ UNCHANGED <<blobs, metadata, failedAdds>>

(* -------------------- AvatarService.GetAvatarByUsername ---------------- *)

\* A request calls GetAvatarByUsername(ctx, username) (GetMyAvatar calls it
\* with the same arguments).
StartGet(p, username) ==
    /\ Begin(p, "get", [NoArgs EXCEPT !.username = username], NoGuid, "lookup")
    /\ nextGuid' = nextGuid

\* GetAvatarByUsername reading the mapping with GETDEL for GET: the mapping
\* read is removed.
GetLookupRemoving(p) ==
    /\ pc[p] = "lookup"
    /\ \E out \in Outcomes(p) :
        LET r == GetGUIDByUsername(mapping, args[p].username, out)
            c == Call("GetGUIDByUsername", out, FALSE)
        IN  /\ mapping' = DeleteUsernameMapping(mapping, args[p].username, out)
            /\ IF r.err # ""
               THEN Return(p, c, warnings[p], NoURL, r.err)
               ELSE Continue(p, "presign", c, r.guid, warnings[p])
    /\ UNCHANGED <<blobs, metadata, failedAdds>>

\* guid, err := s.redisClient.GetGUIDByUsername(ctx, username); an error is
\* returned as it is.
GetLookup(p) ==
    /\ pc[p] = "lookup"
    /\ \E out \in Outcomes(p) :
        LET r == GetGUIDByUsername(mapping, args[p].username, out)
            c == Call("GetGUIDByUsername", out, FALSE)
        IN  IF r.err # ""
            THEN Return(p, c, warnings[p], NoURL, r.err)
            ELSE Continue(p, "presign", c, r.guid, warnings[p])
    /\ UNCHANGED <<stores, failedAdds>>

\* GetAvatarByUsername looking for the blob before it signs the URL.
GetPresignChecked(p) ==
    /\ pc[p] = "presign"
    /\ \E out \in PresignOutcomes(p) :
        LET r == GetAvatarPresignedURL(guid[p], ExpiresIn, out) IN
        Return(p, Call("GetAvatarPresignedURL", out, FALSE), warnings[p],
               IF blobs[guid[p]].present THEN r.url ELSE NoURL,
               IF ~blobs[guid[p]].present THEN "username not found"
               ELSE IF r.err # "" THEN "failed to generate avatar URL" ELSE "")
    /\ UNCHANGED <<stores, failedAdds>>

\* url, err := s.r2Client.GetAvatarPresignedURL(ctx, guid, 3600); an error is
\* returned as "failed to generate avatar URL".
GetPresign(p) ==
    /\ pc[p] = "presign"
    /\ \E out \in PresignOutcomes(p) :
        LET r == GetAvatarPresignedURL(guid[p], ExpiresIn, out) IN
        Return(p, Call("GetAvatarPresignedURL", out, FALSE), warnings[p],
               r.url,
               IF r.err # "" THEN "failed to generate avatar URL" ELSE "")
    /\ UNCHANGED <<stores, failedAdds>>

(* ------------------- AvatarService.GetAvatarsByUsernames --------------- *)

\* The lists of usernames of a batch lookup: not empty (the handler rejects
\* the empty list); one username, or two, different or twice the same.
UsernameLists ==
    {<<u>> : u \in Owners} \cup {<<u, v>> : u, v \in Owners}

\* make(map[string]string).
EmptyMap == [u \in Owners |-> NoGuid]

EmptyResult == [u \in Owners |-> NoURL]

\* The keys of guidMap.
Keys(m) == {u \in Owners : m[u] # NoGuid}

\* A request calls GetAvatarsByUsernames(ctx, usernames); guidMap and result
\* are empty, no key of guidMap has been visited.
StartGetMany(p, usernames) ==
    /\ Begin(p, "getMany",
             [username |-> "", file |-> "", filename |-> "",
              contentType |-> "", size |-> 0, usernames |-> usernames],
             [guidMap |-> EmptyMap, visited |-> {}, result |-> EmptyResult],
             "lookupMany")
    /\ nextGuid' = nextGuid

\* GetGUIDsByUsernames returning the error of a GetGUIDByUsername instead of
\* skipping the username: the batch lookup fails.
GetManyLookupFatal(p) ==
    /\ pc[p] = "lookupMany"
    /\ \E out \in Outcomes(p) :
        LET usernames == args[p].usernames
            i == Len(calls[p]) + 1
            r == GetGUIDByUsername(mapping, usernames[i], out)
            c == CallFor("GetGUIDByUsername", out, usernames[i], r.guid)
            guidMap == [guid[p].guidMap EXCEPT ![usernames[i]] = r.guid]
            locals == [guid[p] EXCEPT !.guidMap = guidMap]
        IN  IF r.err # ""
            THEN Return(p, c, warnings[p], EmptyResult, r.err)
            ELSE IF i < Len(usernames)
                 THEN Continue(p, "lookupMany", c, locals, warnings[p])
                 ELSE Continue(p, "presignMany", c, locals, warnings[p])
    /\ UNCHANGED <<stores, failedAdds>>

\* RedisClient.GetGUIDsByUsernames, one turn of its loop: GetGUIDByUsername
\* for the next username; an error is skipped.  After the last username the
\* coordinator ranges over guidMap; it returns result at once when guidMap
\* is empty.
GetManyLookup(p) ==
    /\ pc[p] = "lookupMany"
    /\ \E out \in Outcomes(p) :
        LET usernames == args[p].usernames
            i == Len(calls[p]) + 1
            r == GetGUIDByUsername(mapping, usernames[i], out)
            c == CallFor("GetGUIDByUsername", out, usernames[i], r.guid)
            guidMap == IF r.err # "" THEN guid[p].guidMap
                       ELSE [guid[p].guidMap EXCEPT ![usernames[i]] = r.guid]
            locals == [guid[p] EXCEPT !.guidMap = guidMap]
        IN  IF i < Len(usernames)
            THEN Continue(p, "lookupMany", c, locals, warnings[p])
            ELSE IF Keys(guidMap) = {}
                 THEN Return(p, c, warnings[p], locals.result, "")
                 ELSE Continue(p, "presignMany", c, locals, warnings[p])
    /\ UNCHANGED <<stores, failedAdds>>

\* One turn of the loop over guidMap, in the order Go ranges over a map (any
\* order): GetAvatarPresignedURL for a key not visited yet; an error is
\* skipped.  After the last key the coordinator returns result, nil.
GetManyPresign(p) ==
    /\ pc[p] = "presignMany"
    /\ \E username \in Keys(guid[p].guidMap) \ guid[p].visited :
       \E out \in PresignOutcomes(p) :
        LET g == guid[p].guidMap[username]
            r == GetAvatarPresignedURL(g, ExpiresIn, out)
            c == CallFor("GetAvatarPresignedURL", out, username, g)
            result == IF r.err # "" THEN guid[p].result
                      ELSE [guid[p].result EXCEPT ![username] = r.url]
            visited == guid[p].visited \cup {username}
            locals == [guid[p] EXCEPT !.visited = visited, !.result = result]
        IN  IF visited = Keys(guid[p].guidMap)
            THEN Return(p, c, warnings[p], result, "")
            ELSE Continue(p, "presignMany", c, locals, warnings[p])
    /\ UNCHANGED <<stores, failedAdds>>

(* -------------------------------- Next --------------------------------- *)

AddArgs ==
    [username : Owners, file : Files, filename : Filenames,
     contentType : ContentTypes, size : Sizes]

\* The coordinator called directly: no HTTP request is served and no record
\* of the returned operations is kept.
Direct == UNCHANGED surface

Next ==
    \E p \in Procs :
        \/ (\E a \in AddArgs : StartAdd(p, a)) /\ Direct
        \/ AddUpload(p) /\ Direct
        \/ AddSetMetadata(p) /\ Direct
        \/ AddMetadataFailed(p) /\ Direct
        \/ AddSetMapping(p) /\ Direct
        \/ AddMappingFailed(p) /\ Direct
        \/ AddMappingFailedBlob(p) /\ Direct
        \/ (\E u \in Owners : StartDelete(p, u)) /\ Direct
        \/ DeleteGetGuid(p) /\ Direct
        \/ DeleteBlob(p) /\ Direct
        \/ DeleteMetadata(p) /\ Direct
        \/ DeleteMapping(p) /\ Direct

Spec == Init /\ [][Next]_vars

\* The steps of the operations none of whose calls failed.
NextNoFault ==
    \E p \in Procs :
        \/ (\E a \in AddArgs : StartAdd(p, a)) /\ Direct
        \/ AddUpload(p) /\ Direct
        \/ AddSetMetadata(p) /\ Direct
        \/ AddSetMapping(p) /\ Direct
        \/ (\E u \in Owners : StartDelete(p, u)) /\ Direct
        \/ DeleteGetGuid(p) /\ Direct
        \/ DeleteBlob(p) /\ Direct
        \/ DeleteMetadata(p) /\ Direct
        \/ DeleteMapping(p) /\ Direct

SpecNoFault == InitNoFault /\ [][NextNoFault]_vars

\* The batch lookups beside the Adds and the DeleteByOwners.
InitBatch ==
    /\ Start
    /\ opsLeft = MaxOpsBatch
    /\ faultsLeft = MaxFaultsBatch

NextBatch ==
    \E p \in Procs :
        \/ (\E a \in AddArgs : StartAdd(p, a)) /\ Direct
        \/ AddUpload(p) /\ Direct
        \/ AddSetMetadata(p) /\ Direct
        \/ AddMetadataFailed(p) /\ Direct
        \/ AddSetMapping(p) /\ Direct
        \/ AddMappingFailed(p) /\ Direct
        \/ AddMappingFailedBlob(p) /\ Direct
        \/ (\E u \in Owners : StartDelete(p, u)) /\ Direct
        \/ DeleteGetGuid(p) /\ Direct
        \/ DeleteBlob(p) /\ Direct
        \/ DeleteMetadata(p) /\ Direct
        \/ DeleteMapping(p) /\ Direct
        \/ (\E us \in UsernameLists : StartGetMany(p, us)) /\ Direct
        \/ GetManyLookup(p) /\ Direct
        \/ GetManyPresign(p) /\ Direct

SpecBatch == InitBatch /\ [][NextBatch]_vars

\* The operations in flight beside the one of request p, which returns in
\* this step.
During(p) ==
    {[kind |-> kind[q], username |-> args[q].username, guid |-> guid[q]] :
        q \in {r \in Procs \ {p} : InFlight(r)}}

\* Operations called in sequence: an operation starts when the one before
\* has returned, and what each returned is kept in history.
InitSeq ==
    /\ Start
    /\ opsLeft = MaxOpsSeq
    /\ faultsLeft = MaxFaultsSeq

\* The step of request p is the one in which its operation returns.
Returns(p) == pc[p] # "idle" /\ pc'[p] = "idle"

\* The operation that returns in this step is added to history, with the
\* operations that were in flight when it returned.
Recorded ==
    /\ history' =
           IF \E p \in Procs : Returns(p)
           THEN LET p == CHOOSE q \in Procs : Returns(q) IN
                Append(history,
                       [kind |-> returned'.kind,
                        username |-> returned'.username,
                        guid |-> returned'.guid,
                        args |-> args[p],
                        calls |-> returned'.calls,
                        warnings |-> returned'.warnings,
                        result |-> returned'.result,
                        during |-> During(p)])
           ELSE history
    /\ UNCHANGED <<request, reply>>

NextSeq ==
    \E p \in Procs :
        \/ Quiescent /\ (\E a \in AddArgs : StartAdd(p, a)) /\ Recorded
        \/ AddUpload(p) /\ Recorded
        \/ AddSetMetadata(p) /\ Recorded
        \/ AddMetadataFailed(p) /\ Recorded
        \/ AddSetMapping(p) /\ Recorded
        \/ AddMappingFailed(p) /\ Recorded
        \/ AddMappingFailedBlob(p) /\ Recorded
        \/ Quiescent /\ (\E u \in Owners : StartDelete(p, u)) /\ Recorded
        \/ DeleteGetGuid(p) /\ Recorded
        \/ DeleteBlob(p) /\ Recorded
        \/ DeleteMetadata(p) /\ Recorded
        \/ DeleteMapping(p) /\ Recorded
        \/ Quiescent /\ (\E u \in Owners : StartGet(p, u)) /\ Recorded
        \/ GetLookup(p) /\ Recorded
        \/ GetPresign(p) /\ Recorded

SpecSeq == InitSeq /\ [][NextSeq]_vars

\* Concurrent Adds and DeleteByOwners none of whose calls fails, with what
\* each returned kept in history.
InitRace ==
    /\ Start
    /\ opsLeft = MaxOpsRace
    /\ faultsLeft = 0

NextRace ==
    \E p \in Procs :
        \/ (\E a \in AddArgs : StartAdd(p, a)) /\ Recorded
        \/ AddUpload(p) /\ Recorded
        \/ AddSetMetadata(p) /\ Recorded
        \/ AddSetMapping(p) /\ Recorded
        \/ (\E u \in Owners : StartDelete(p, u)) /\ Recorded
        \/ DeleteGetGuid(p) /\ Recorded
        \/ DeleteBlob(p) /\ Recorded
        \/ DeleteMetadata(p) /\ Recorded
        \/ DeleteMapping(p) /\ Recorded

SpecRace == InitRace /\ [][NextRace]_vars
\* Two payloads that differ in bytes, content type and size.
Payloads ==
    {[file |-> "jpeg bytes", filename |-> "pic.jpg",
      contentType |-> "image/jpeg", size |-> 1024],
     [file |-> "png bytes", filename |-> "pic.png",
      contentType |-> "image/png", size |-> 2048]}

\* The arguments of AddAvatar for owner username and payload P.
AddOf(username, P) ==
    [username |-> username, file |-> P.file, filename |-> P.filename,
     contentType |-> P.contentType, size |-> P.size]

\* The owner whose avatar is added, looked up and deleted.
Owner == "alice"

\* The Adds called: of both payloads for Owner, of one payload for every
\* other owner.
TripAdds ==
    {AddOf(Owner, P) : P \in Payloads}
    \cup {AddOf(u, CHOOSE P \in Payloads : P.size = 2048) :
             u \in Owners \ {Owner}}

\* Adds of different payloads, GetByOwners and DeleteByOwners called in
\* sequence by one caller after the other, what each returned kept in
\* history.
InitTrip ==
    /\ Start
    /\ opsLeft = MaxOpsTrip
    /\ faultsLeft = MaxFaultsTrip

\* The caller calls when nothing is in flight; the goroutines are told apart
\* by nothing, the first serves each call.
Idle(p) == Quiescent /\ \A q \in Procs : p <= q

NextTrip ==
    \E p \in Procs :
        \/ Idle(p) /\ (\E a \in TripAdds : StartAdd(p, a)) /\ Recorded
        \/ AddUpload(p) /\ Recorded
        \/ AddSetMetadata(p) /\ Recorded
        \/ AddMetadataFailed(p) /\ Recorded
        \/ AddSetMapping(p) /\ Recorded
        \/ AddMappingFailed(p) /\ Recorded
        \/ AddMappingFailedBlob(p) /\ Recorded
        \/ Idle(p) /\ StartDelete(p, Owner) /\ Recorded
        \/ DeleteGetGuid(p) /\ Recorded
        \/ DeleteBlob(p) /\ Recorded
        \/ DeleteMetadata(p) /\ Recorded
        \/ DeleteMapping(p) /\ Recorded
        \/ Idle(p) /\ StartGet(p, Owner) /\ Recorded
        \/ GetLookup(p) /\ Recorded
        \/ GetPresign(p) /\ Recorded

SpecTrip == InitTrip /\ [][NextTrip]_vars

\* The four operations of the coordinator called beside each other, for one
\* owner.
InitAll ==
    /\ Start
    /\ opsLeft = MaxOpsAll
    /\ faultsLeft = MaxFaultsAll

\* The Adds of Owner.
OwnerAdds == {a \in AddArgs : a.username = Owner}

\* The lists of usernames that begin with Owner: alone, twice, or before
\* another owner.
OwnerLists == {us \in UsernameLists : us[1] = Owner}

\* A new request is served by a new goroutine; the goroutines are told apart
\* by nothing, and the first that serves no request takes it.
Free(p) == \A q \in Procs : q < p => InFlight(q)

NextAll ==
    \E p \in Procs :
        \/ Free(p) /\ (\E a \in OwnerAdds : StartAdd(p, a)) /\ Direct
        \/ AddUpload(p) /\ Direct
        \/ AddSetMetadata(p) /\ Direct
        \/ AddMetadataFailed(p) /\ Direct
        \/ AddSetMapping(p) /\ Direct
        \/ AddMappingFailed(p) /\ Direct
        \/ AddMappingFailedBlob(p) /\ Direct
        \/ Free(p) /\ StartDelete(p, Owner) /\ Direct
        \/ DeleteGetGuid(p) /\ Direct
        \/ DeleteBlob(p) /\ Direct
        \/ DeleteMetadata(p) /\ Direct
        \/ DeleteMapping(p) /\ Direct
        \/ Free(p) /\ StartGet(p, Owner) /\ Direct
        \/ GetLookup(p) /\ Direct
        \/ GetPresign(p) /\ Direct
        \/ Free(p) /\ (\E us \in OwnerLists : StartGetMany(p, us)) /\ Direct
        \/ GetManyLookup(p) /\ Direct
        \/ GetManyPresign(p) /\ Direct

SpecAll == InitAll /\ [][NextAll]_vars

\* Concurrent Adds and DeleteByOwners of every owner, their calls failing or
\* not, with what each returned kept in history, beside the avatar of an owner
\* added before.
Neighbour == CHOOSE u \in Owners : u # Owner

\* The Add of Neighbour that has returned: its three writes succeeded.
NeighbourAdd ==
    [kind |-> "add", username |-> Neighbour, guid |-> 1,
     calls |-> <<Call("UploadAvatar", "ok", FALSE),
                 Call("SetAvatarMetadata", "ok", FALSE),
                 Call("SetGUIDByUsername", "ok", FALSE)>>,
     warnings |-> {}, result |-> [guid |-> 1, err |-> ""]]

\* The state after one Add of Neighbour has succeeded: its avatar is in the
\* three stores and no request is being served.
InitOwners ==
    LET a == CHOOSE b \in AddArgs : b.username = Neighbour IN
    /\ blobs = UploadAvatar([g \in Guids |-> Absent], 1, a.file,
                            a.contentType, a.size, "ok")
    /\ metadata = SetAvatarMetadata([g \in Guids |-> Absent],
                                    [guid |-> 1, username |-> a.username,
                                     filename |-> a.filename, size |-> a.size,
                                     mimeType |-> a.contentType], "ok")
    /\ mapping = SetGUIDByUsername([u \in Owners |-> NoMapping], Neighbour, 1,
                                   "ok")
    /\ pc = [p \in Procs |-> "idle"]
    /\ kind = [p \in Procs |-> "none"]
    /\ args = [p \in Procs |-> NoArgs]
    /\ guid = [p \in Procs |-> NoGuid]
    /\ ctxDone = [p \in Procs |-> FALSE]
    /\ calls = [p \in Procs |-> <<>>]
    /\ warnings = [p \in Procs |-> {}]
    /\ returned = NeighbourAdd
    /\ nextGuid = 2
    /\ failedAdds = {}
    /\ history = <<[kind |-> "add", username |-> Neighbour, guid |-> 1,
                    args |-> a, calls |-> NeighbourAdd.calls,
                    warnings |-> {}, result |-> NeighbourAdd.result,
                    during |-> {}]>>
    /\ request = [p \in Procs |-> NoRequest]
    /\ reply = NoReply
    /\ opsLeft = MaxOpsOwners
    /\ faultsLeft = MaxFaultsOwners

NextOwners ==
    \E p \in Procs :
        \/ Free(p) /\ (\E a \in AddArgs : StartAdd(p, a)) /\ Recorded
        \/ AddUpload(p) /\ Recorded
        \/ AddSetMetadata(p) /\ Recorded
        \/ AddMetadataFailed(p) /\ Recorded
        \/ AddSetMapping(p) /\ Recorded
        \/ AddMappingFailed(p) /\ Recorded
        \/ AddMappingFailedBlob(p) /\ Recorded
        \/ Free(p) /\ (\E u \in Owners : StartDelete(p, u)) /\ Recorded
        \/ DeleteGetGuid(p) /\ Recorded
        \/ DeleteBlob(p) /\ Recorded
        \/ DeleteMetadata(p) /\ Recorded
        \/ DeleteMapping(p) /\ Recorded

SpecOwners == InitOwners /\ [][NextOwners]_vars

\* The external call request p is waiting for returns: the request goes on
\* to its next call or returns.
CallReturns(p) ==
    /\ \/ AddUpload(p)
       \/ AddSetMetadata(p)
       \/ AddMetadataFailed(p)
       \/ AddSetMapping(p)
       \/ AddMappingFailed(p)
       \/ AddMappingFailedBlob(p)
       \/ DeleteGetGuid(p)
       \/ DeleteBlob(p)
       \/ DeleteMetadata(p)
       \/ DeleteMapping(p)
       \/ GetLookup(p)
       \/ GetPresign(p)
       \/ GetManyLookup(p)
       \/ GetManyPresign(p)
    /\ Direct

\* Every external call made returns in the end, with success or with an
\* error.
SpecLive == SpecAll /\ \A p \in Procs : WF_vars(CallReturns(p))

(* ============================ the HTTP surface ========================= *)

StatusOK == 200

StatusNoContent == 204

StatusBadRequest == 400

StatusUnauthorized == 401

StatusNotFound == 404

StatusMethodNotAllowed == 405

StatusInternalServerError == 500

\* The variables of the coordinator and of the stores.
avatarService ==
    <<blobs, metadata, mapping, pc, kind, args, guid, ctxDone, calls,
      warnings, returned, nextGuid, opsLeft, faultsLeft, failedAdds>>

\* The routes registered on the /api subrouter.
Routes ==
    {[method |-> "POST", path |-> "/api/avatar", handler |-> "AddAvatar"],
     [method |-> "GET", path |-> "/api/avatar", handler |-> "GetAvatar"],
     [method |-> "POST", path |-> "/api/avatars",
      handler |-> "GetAvatarsByUsernames"],
     [method |-> "GET", path |-> "/api/avatar/me", handler |-> "GetMyAvatar"],
     [method |-> "DELETE", path |-> "/api/avatar/me",
      handler |-> "DeleteMyAvatar"]}

\* mux.Router matching a request: the handler of the route with that path
\* and method; 405 when only the method differs, 404 when no path matches.
Match(method, path) ==
    IF \E r \in Routes : r.method = method /\ r.path = path
    THEN [status |-> 0,
          handler |-> (CHOOSE r \in Routes :
                           r.method = method /\ r.path = path).handler]
    ELSE IF \E r \in Routes : r.path = path
    THEN [status |-> StatusMethodNotAllowed, handler |-> ""]
    ELSE [status |-> StatusNotFound, handler |-> ""]

\* A header value is a sequence of pieces: "q" is a double quote, "sp" a
\* space, "Bearer" the word Bearer, every other piece a run of other
\* characters.

\* strings.ReplaceAll(s, `"`, "").
RemoveQuotes(s) == SelectSeq(s, LAMBDA c : c # "q")

RECURSIVE TrimLeft(_)
TrimLeft(s) ==
    IF s # <<>> /\ Head(s) = "sp" THEN TrimLeft(Tail(s)) ELSE s

RECURSIVE TrimRight(_)
TrimRight(s) ==
    IF s # <<>> /\ s[Len(s)] = "sp"
    THEN TrimRight(SubSeq(s, 1, Len(s) - 1))
    ELSE s

\* strings.TrimSpace(s).
TrimSpace(s) == TrimRight(TrimLeft(s))

\* strings.HasPrefix(s, "Bearer ").
HasBearerPrefix(s) == Len(s) >= 2 /\ s[1] = "Bearer" /\ s[2] = "sp"

\* The token AuthMiddleware takes from the Authorization header.
Token(authHeader) ==
    LET h == TrimSpace(RemoveQuotes(authHeader))
        token == IF HasBearerPrefix(h)
                 THEN TrimSpace(SubSeq(h, 3, Len(h)))
                 ELSE h
    IN  TrimSpace(RemoveQuotes(token))

\* The user the identity service knows a token for.
Users(token) ==
    IF token = <<"tokA">> THEN "alice"
    ELSE IF token = <<"tokB">> THEN "bob"
    ELSE NoUser

\* What grpcClient.ValidateToken can return: an error for a token the
\* identity service does not know, and for any token when the service
\* cannot be reached or answers badly.
VerifierOutcomes(token) ==
    IF Users(token) = NoUser THEN {"fail"} ELSE {"ok", "fail"}

\* json.NewDecoder(r.Body).Decode(&request): an error unless the body is a
\* JSON object; Usernames stays nil when the field is absent or null.
Decode(body) ==
    IF body.kind # "json"
    THEN [err |-> TRUE, usernames |-> <<>>]
    ELSE [err |-> FALSE,
          usernames |-> IF body.field = "list" THEN body.usernames ELSE <<>>]

\* The Authorization headers of the requests.
Headers ==
    {<<>>, <<"q", "q">>, <<"Bearer", "sp">>, <<"junk">>, <<"tokA">>,
     <<"Bearer", "sp", "tokA">>,
     <<"q", "Bearer", "sp", "sp", "tokB", "q", "sp">>}

\* The headers among them that leave no token, a token by itself, and a
\* token in quotes behind the Bearer prefix.
SomeHeaders ==
    {<<>>, <<"tokA">>, <<"q", "Bearer", "sp", "sp", "tokB", "q", "sp">>}

\* The bodies of the requests to POST /api/avatars.
BatchBodies ==
    {NoBody, [NoBody EXCEPT !.kind = "garbage"],
     [NoBody EXCEPT !.kind = "json"],
     [NoBody EXCEPT !.kind = "json", !.field = "null"],
     [NoBody EXCEPT !.kind = "json", !.field = "list"]}
    \cup {[NoBody EXCEPT !.kind = "json", !.field = "list", !.usernames = us] :
             us \in {<<"alice">>, <<"bob", "alice">>}}

\* The bodies of the requests to POST /api/avatar.
Forms ==
    {[NoBody EXCEPT !.kind = "garbage"], [NoBody EXCEPT !.kind = "multipart"]}
    \cup {[NoBody EXCEPT !.kind = "multipart",
                         !.file = [present |-> TRUE, content |-> c,
                                   filename |-> f, contentType |-> ct,
                                   size |-> sz]] :
             c \in Files, f \in Filenames, ct \in ContentTypes \cup {""},
             sz \in Sizes}

\* What http.Get of the url of an upload by URL can get: an error, a
\* response that is not 200, a 200 with a Content-Length, a 200 without.
Remotes == {"fail", "404", "200 with length", "200 without length"}

\* The bodies of the requests to POST /api/avatar/url.
UrlBodies ==
    {[NoBody EXCEPT !.kind = "json"]}
    \cup {[NoBody EXCEPT !.kind = "json", !.url = "https://t.me/i/userpic",
                         !.remote = rm] : rm \in Remotes}

Req(method, path, header, query, body) ==
    [method |-> method, path |-> path, header |-> header, query |-> query,
     body |-> body]

\* The requests sent to the server.
Requests ==
    {Req("POST", "/api/avatars", h, "", b) :
        h \in {<<>>, <<"tokA">>}, b \in BatchBodies}
    \cup {Req("GET", "/api/avatar", h, u, NoBody) :
             h \in SomeHeaders, u \in Owners \cup {""}}
    \cup {Req("GET", "/api/avatar/me", h, "", NoBody) : h \in Headers}
    \cup {Req("DELETE", "/api/avatar/me", h, "", NoBody) : h \in SomeHeaders}
    \cup {Req("POST", "/api/avatar", h, "", b) :
             h \in SomeHeaders, b \in Forms}
    \cup {Req("POST", "/api/avatar/url", <<"tokA">>, "", b) : b \in UrlBodies}
    \cup {Req("GET", "/api/avatars", <<"tokA">>, "", NoBody),
          Req("GET", "/api/unknown", <<>>, "", NoBody),
          Req("POST", "/api/unknown", <<"tokA">>, "", NoBody)}

\* The response is written: respondWithError, respondWithJSON,
\* w.WriteHeader.
Answer(p, code, message) ==
    request' = [request EXCEPT ![p].stage = "answered", ![p].status = code,
                               ![p].error = message]

\* The handler writes the response.
Reply(p, code, message) ==
    request' = [request EXCEPT ![p].stage = "answered", ![p].status = code,
                               ![p].error = message, ![p].handled = TRUE]

\* The request goes on to the next stage.
Pass(p, stage) == request' = [request EXCEPT ![p].stage = stage]

\* The handler calls the coordinator.
CallService(p) ==
    request' = [request EXCEPT ![p].stage = "service", ![p].service = TRUE,
                               ![p].handled = TRUE]

\* The server accepts a request and serves it in a goroutine of its own.
\* The requests are sent one after the other, so the goroutines are told
\* apart by nothing: the first serves each.
Receive(p, r) ==
    /\ \A q \in Procs : request[q].stage = "none" /\ p <= q
    /\ opsLeft > 0
    /\ request' = [request EXCEPT ![p] =
                       [NoRequest EXCEPT !.method = r.method,
                                         !.path = r.path,
                                         !.header = r.header,
                                         !.query = r.query,
                                         !.body = r.body,
                                         !.stage = "router"]]
    /\ UNCHANGED <<avatarService, history, reply>>

\* The router matches the request; a request that matches no route is
\* answered without the subrouter's middleware.
Router(p) ==
    /\ request[p].stage = "router"
    /\ LET m == Match(request[p].method, request[p].path) IN
       IF m.status # 0
       THEN Answer(p, m.status, "")
       ELSE request' = [request EXCEPT ![p].stage = "auth",
                                       ![p].handler = m.handler]
    /\ UNCHANGED <<avatarService, history, reply>>

\* AuthMiddleware letting every request with a header through.
AuthMiddlewareOpen(p) ==
    /\ request[p].stage = "auth"
    /\ IF request[p].path = "/api/avatars" /\ request[p].method = "POST"
       THEN Pass(p, "handler")
       ELSE IF request[p].header = <<>>
       THEN Answer(p, StatusUnauthorized, "Authorization header required")
       ELSE Pass(p, "handler")
    /\ UNCHANGED <<avatarService, history, reply>>

\* AuthMiddleware up to the call of the verifier: POST /api/avatars is
\* passed on; an empty header, and a header that leaves an empty token,
\* are answered 401.
AuthMiddleware(p) ==
    /\ request[p].stage = "auth"
    /\ IF request[p].path = "/api/avatars" /\ request[p].method = "POST"
       THEN Pass(p, "handler")
       ELSE IF request[p].header = <<>>
       THEN Answer(p, StatusUnauthorized, "Authorization header required")
       ELSE IF Token(request[p].header) = <<>>
       THEN Answer(p, StatusUnauthorized, "Token is empty")
       ELSE Pass(p, "verify")
    /\ UNCHANGED <<avatarService, history, reply>>

\* user, err := grpcClient.ValidateToken(r.Context(), token): an error is
\* answered 401; otherwise the user is put in the request's context and the
\* handler is called.
ValidateToken(p) ==
    /\ request[p].stage = "verify"
    /\ LET token == Token(request[p].header) IN
       \E out \in VerifierOutcomes(token) :
           request' =
               [request EXCEPT
                   ![p].verifier = Append(@, [token |-> token, out |-> out]),
                   ![p].stage = IF out = "ok" THEN "handler" ELSE "answered",
                   ![p].user = IF out = "ok" THEN Users(token) ELSE NoUser,
                   ![p].status = IF out = "ok" THEN 0 ELSE StatusUnauthorized,
                   ![p].error = IF out = "ok" THEN ""
                                ELSE "Token validation failed"]
    /\ UNCHANGED <<avatarService, history, reply>>

Handles(p, handler) ==
    request[p].stage = "handler" /\ request[p].handler = handler

\* Handlers.AddAvatar passing on the Content-Type of the part as it is.
HandlersAddAvatarNoDefault(p) ==
    /\ Handles(p, "AddAvatar")
    /\ LET file == request[p].body.file IN
       IF request[p].user = NoUser
       THEN /\ Reply(p, StatusInternalServerError, "User not found in context")
            /\ UNCHANGED avatarService
       ELSE IF request[p].body.kind # "multipart"
       THEN /\ Reply(p, StatusBadRequest, "Failed to parse multipart form")
            /\ UNCHANGED avatarService
       ELSE IF ~file.present
       THEN /\ Reply(p, StatusBadRequest, "Failed to get file from form")
            /\ UNCHANGED avatarService
       ELSE /\ StartAdd(p, [username |-> request[p].user,
                            file |-> file.content,
                            filename |-> file.filename,
                            contentType |-> file.contentType,
                            size |-> file.size])
            /\ CallService(p)
    /\ UNCHANGED <<history, reply>>

\* Handlers.AddAvatar: the user of the context, the file of the multipart
\* form, application/octet-stream for a part without a Content-Type.
HandlersAddAvatar(p) ==
    /\ Handles(p, "AddAvatar")
    /\ LET file == request[p].body.file IN
       IF request[p].user = NoUser
       THEN /\ Reply(p, StatusInternalServerError, "User not found in context")
            /\ UNCHANGED avatarService
       ELSE IF request[p].body.kind # "multipart"
       THEN /\ Reply(p, StatusBadRequest, "Failed to parse multipart form")
            /\ UNCHANGED avatarService
       ELSE IF ~file.present
       THEN /\ Reply(p, StatusBadRequest, "Failed to get file from form")
            /\ UNCHANGED avatarService
       ELSE /\ StartAdd(p, [username |-> request[p].user,
                            file |-> file.content,
                            filename |-> file.filename,
                            contentType |->
                                IF file.contentType = ""
                                THEN "application/octet-stream"
                                ELSE file.contentType,
                            size |-> file.size])
            /\ CallService(p)
    /\ UNCHANGED <<history, reply>>

\* Handlers.GetAvatar: the username of the query.
HandlersGetAvatar(p) ==
    /\ Handles(p, "GetAvatar")
    /\ IF request[p].query = ""
       THEN /\ Reply(p, StatusBadRequest, "username is required")
            /\ UNCHANGED avatarService
       ELSE /\ StartGet(p, request[p].query)
            /\ CallService(p)
    /\ UNCHANGED <<history, reply>>

\* Handlers.GetAvatarsByUsernames calling the coordinator with any list.
HandlersGetAvatarsByUsernamesAnyList(p) ==
    /\ Handles(p, "GetAvatarsByUsernames")
    /\ LET d == Decode(request[p].body) IN
       IF d.err
       THEN /\ Reply(p, StatusBadRequest, "Invalid request body")
            /\ UNCHANGED avatarService
       ELSE /\ StartGetMany(p, d.usernames)
            /\ CallService(p)
    /\ UNCHANGED <<history, reply>>

\* Handlers.GetAvatarsByUsernames: a body that does not decode and a list
\* of no usernames are answered 400.
HandlersGetAvatarsByUsernames(p) ==
    /\ Handles(p, "GetAvatarsByUsernames")
    /\ LET d == Decode(request[p].body) IN
       IF d.err
       THEN /\ Reply(p, StatusBadRequest, "Invalid request body")
            /\ UNCHANGED avatarService
       ELSE IF Len(d.usernames) = 0
       THEN /\ Reply(p, StatusBadRequest, "Usernames list cannot be empty")
            /\ UNCHANGED avatarService
       ELSE /\ StartGetMany(p, d.usernames)
            /\ CallService(p)
    /\ UNCHANGED <<history, reply>>

\* Handlers.GetMyAvatar: the user of the context.
HandlersGetMyAvatar(p) ==
    /\ Handles(p, "GetMyAvatar")
    /\ IF request[p].user = NoUser
       THEN /\ Reply(p, StatusInternalServerError, "User not found in context")
            /\ UNCHANGED avatarService
       ELSE /\ StartGet(p, request[p].user)
            /\ CallService(p)
    /\ UNCHANGED <<history, reply>>

\* Handlers.DeleteMyAvatar: the user of the context.
HandlersDeleteMyAvatar(p) ==
    /\ Handles(p, "DeleteMyAvatar")
    /\ IF request[p].user = NoUser
       THEN /\ Reply(p, StatusInternalServerError, "User not found in context")
            /\ UNCHANGED avatarService
       ELSE /\ StartDelete(p, request[p].user)
            /\ CallService(p)
    /\ UNCHANGED <<history, reply>>

\* The status a handler answers with when the coordinator has returned err.
Status(handler, err) ==
    IF handler \in {"GetAvatar", "GetMyAvatar"}
    THEN IF err # "" THEN StatusNotFound ELSE StatusOK
    ELSE IF handler = "DeleteMyAvatar"
    THEN IF err # "" THEN StatusInternalServerError ELSE StatusNoContent
    ELSE IF err # "" THEN StatusInternalServerError ELSE StatusOK

\* The handler whose call of the coordinator returns in this step writes
\* the response.
Served ==
    /\ request' =
           IF \E p \in Procs : Returns(p)
           THEN LET p == CHOOSE q \in Procs : Returns(q) IN
                [request EXCEPT
                    ![p].stage = "answered",
                    ![p].status = Status(request[p].handler,
                                         returned'.result.err),
                    ![p].error = returned'.result.err]
           ELSE request
    /\ UNCHANGED <<history, reply>>

\* The response has been sent; the goroutine of the request ends.
Finish(p) ==
    /\ request[p].stage = "answered"
    /\ request' = [request EXCEPT ![p] = NoRequest]
    /\ UNCHANGED <<avatarService, history, reply>>

InitHttp ==
    /\ Start
    /\ opsLeft = MaxOpsHttp
    /\ faultsLeft = MaxFaultsHttp

NextHttp ==
    \E p \in Procs :
        \/ \E r \in Requests : Receive(p, r)
        \/ Router(p)
        \/ AuthMiddleware(p)
        \/ ValidateToken(p)
        \/ HandlersAddAvatar(p)
        \/ HandlersGetAvatar(p)
        \/ HandlersGetAvatarsByUsernames(p)
        \/ HandlersGetMyAvatar(p)
        \/ HandlersDeleteMyAvatar(p)
        \/ AddUpload(p) /\ Served
        \/ AddSetMetadata(p) /\ Served
        \/ AddMetadataFailed(p) /\ Served
        \/ AddSetMapping(p) /\ Served
        \/ AddMappingFailed(p) /\ Served
        \/ AddMappingFailedBlob(p) /\ Served
        \/ DeleteGetGuid(p) /\ Served
        \/ DeleteBlob(p) /\ Served
        \/ DeleteMetadata(p) /\ Served
        \/ DeleteMapping(p) /\ Served
        \/ GetLookup(p) /\ Served
        \/ GetPresign(p) /\ Served
        \/ GetManyLookup(p) /\ Served
        \/ GetManyPresign(p) /\ Served
        \/ Finish(p)

SpecHttp == InitHttp /\ [][NextHttp]_vars

(* ========================= the gRPC-Web client ========================= *)

\* A uint32 is kept as its two halves of 16 bits, [hi, lo], its value being
\* hi * 2^16 + lo: binary.BigEndian.Uint32 returns one, and the sum
\* 5+responseMsgLen is computed in uint32, modulo 2^32.
TwoTo16 == 65536

\* n + u in uint32, for a small n.
AddUint32(n, u) ==
    LET lo == u.lo + n IN
    [hi |-> (u.hi + lo \div TwoTo16) % TwoTo16, lo |-> lo % TwoTo16]

\* n < int(u), for an n below 2^16: the length of a body.
LessThan(n, u) == u.hi > 0 \/ n < u.lo

\* The frame header: one byte of flags and four bytes of length.
HeaderLen == 5

\* All sequences over S of length at most n.
SeqsUpTo(S, n) == UNION {[1..k -> S] : k \in 0..n}

\* The flags of a frame: data, trailers.
FlagBytes == {0, 128}

\* The bytes of the declared length: they spell lengths from 0 to 2^32-1,
\* among them the lengths of the messages sent and the five largest.
LengthBytes == {0, 1, 251, 255}

\* The bytes of a message.
MessageBytes == {0, 255}

\* The binary bodies: too short for a header, or a header and what follows
\* it.
BinaryBodies ==
    SeqsUpTo(MessageBytes, HeaderLen - 1)
    \cup {<<f>> \o l \o m : f \in FlagBytes, l \in [1..4 -> LengthBytes],
                            m \in SeqsUpTo(MessageBytes, MaxPayload)}

\* The characters "/", "=" and "A" of a base64 body.
TextBytes == {47, 61, 65}

TextBodies == SeqsUpTo(TextBytes, MaxText)

BinaryTypes == {"application/grpc-web+proto"}

TextTypes == {"application/grpc-web-text", "application/grpc-web-text+proto"}

\* strings.Contains(contentType, "application/grpc-web-text").
ContainsText(contentType) == contentType \in TextTypes

\* What c.client.Do and io.ReadAll can give a call: no response, a response
\* that is not 200, a body that cannot be read, or a 200 with a body.
Responses ==
    {[status |-> 0, read |-> FALSE, contentType |-> "", body |-> <<>>],
     [status |-> StatusInternalServerError, read |-> TRUE,
      contentType |-> "", body |-> <<>>],
     [status |-> StatusOK, read |-> FALSE, contentType |-> "",
      body |-> <<>>]}
    \cup [status : {StatusOK}, read : {TRUE}, contentType : BinaryTypes,
          body : BinaryBodies]
    \cup [status : {StatusOK}, read : {TRUE}, contentType : TextTypes,
          body : TextBodies]

\* The value of a character of the base64 alphabet of StdEncoding; 64 for a
\* byte that is not in it.
Base64Value(c) ==
    IF c \in 65..90 THEN c - 65
    ELSE IF c \in 97..122 THEN c - 71
    ELSE IF c \in 48..57 THEN c + 4
    ELSE IF c = 43 THEN 62
    ELSE IF c = 47 THEN 63
    ELSE 64

\* "=", the padding character.
Padding == 61

\* The three bytes four characters of the alphabet stand for.
Quantum(q) ==
    LET n == Base64Value(q[1]) * 262144 + Base64Value(q[2]) * 4096
             + Base64Value(q[3]) * 64 + Base64Value(q[4])
    IN  <<n \div 65536, (n \div 256) % 256, n % 256>>

\* The bytes of the last four characters, which can end in one or two
\* padding characters; ok is FALSE when they are no base64.
LastQuantum(q) ==
    LET InAlphabet(c) == Base64Value(c) < 64
        Zeroed(r) == [i \in 1..4 |-> IF r[i] = Padding THEN 65 ELSE r[i]]
    IN  IF ~InAlphabet(q[1]) \/ ~InAlphabet(q[2])
        THEN [ok |-> FALSE, bytes |-> <<>>]
        ELSE IF q[3] = Padding
        THEN [ok |-> q[4] = Padding,
              bytes |-> SubSeq(Quantum(Zeroed(q)), 1, 1)]
        ELSE IF ~InAlphabet(q[3])
        THEN [ok |-> FALSE, bytes |-> <<>>]
        ELSE IF q[4] = Padding
        THEN [ok |-> TRUE, bytes |-> SubSeq(Quantum(Zeroed(q)), 1, 2)]
        ELSE [ok |-> InAlphabet(q[4]), bytes |-> Quantum(q)]

RECURSIVE DecodeQuanta(_)
\* The bytes of a string of whole groups of four characters: padding is
\* accepted in the last group only.
DecodeQuanta(s) ==
    IF s = <<>> THEN [ok |-> TRUE, bytes |-> <<>>]
    ELSE IF Len(s) = 4 THEN LastQuantum(s)
    ELSE LET q == SubSeq(s, 1, 4)
             rest == DecodeQuanta(SubSeq(s, 5, Len(s)))
         IN  IF \E i \in 1..4 : Base64Value(q[i]) = 64
             THEN [ok |-> FALSE, bytes |-> <<>>]
             ELSE [ok |-> rest.ok, bytes |-> Quantum(q) \o rest.bytes]

\* base64.StdEncoding.DecodeString: carriage returns and line feeds are
\* skipped; what is left must be whole groups of four characters.
DecodeString(s) ==
    LET NoNewline(c) == c \notin {10, 13}
        t == SelectSeq(s, NoNewline)
    IN  IF Len(t) % 4 # 0 THEN [ok |-> FALSE, bytes |-> <<>>]
        ELSE DecodeQuanta(t)

\* binary.BigEndian.Uint32(b) of four bytes.
BigEndianUint32(b) ==
    [hi |-> b[1] * 256 + b[2], lo |-> b[3] * 256 + b[4]]

\* proto.Unmarshal(msgData, userResp) of the messages the bodies hold: the
\* empty message is the UserResponse with no field set; a message whose
\* first byte is a tag of field number 0, or of wire type 6 or 7, or the
\* beginning of a varint that never ends, is an error.  The fields of other
\* messages are not looked at.
Unmarshal(msgData) ==
    IF msgData = <<>> THEN [user |-> "empty user", err |-> ""]
    ELSE IF \/ msgData[1] < 8
            \/ msgData[1] % 8 \in {6, 7}
            \/ \A i \in 1..Len(msgData) : msgData[i] >= 128
    THEN [user |-> NoUser, err |-> "failed to unmarshal response"]
    ELSE [user |-> "some user", err |-> ""]

\* The call returns nil and err.
Fails(method, r, err) ==
    [method |-> method, stage |-> "returned", status |-> r.status,
     contentType |-> r.contentType, body |-> r.body, user |-> NoUser,
     err |-> err, low |-> 0, high |-> 0, len |-> 0]

\* What a call of method makes of response r, from c.client.Do to its
\* return.  The slice expression responseData[low:high] panics when
\* low > high or high > len(responseData); the panic ends the call without
\* a return.  int is 64 bits wide: int(5+responseMsgLen) is the uint32 sum,
\* which is its low half once it is not above len(responseData).
Parse(method, r) ==
    IF r.status = 0 THEN Fails(method, r, "HTTP request failed")
    ELSE IF r.status # StatusOK
    THEN Fails(method, r, "gRPC-Web request failed")
    ELSE IF ~r.read THEN Fails(method, r, "failed to read response body")
    ELSE
    LET decoded == DecodeString(r.body) IN
    IF ContainsText(r.contentType) /\ ~decoded.ok
    THEN Fails(method, r, "failed to decode base64 response")
    ELSE
    LET responseData == IF ContainsText(r.contentType) THEN decoded.bytes
                        ELSE r.body
    IN
    IF Len(responseData) < HeaderLen
    THEN Fails(method, r, "response too short")
    ELSE
    LET responseMsgLen == BigEndianUint32(SubSeq(responseData, 2, 5))
        sum == AddUint32(HeaderLen, responseMsgLen)
        low == HeaderLen
        high == sum.lo
    IN
    IF LessThan(Len(responseData), sum)
    THEN Fails(method, r, "response incomplete")
    ELSE IF low > high \/ high > Len(responseData)
    THEN [Fails(method, r, "") EXCEPT !.stage = "panicked", !.low = low,
                                      !.high = high,
                                      !.len = Len(responseData)]
    ELSE
    LET msgData == SubSeq(responseData, low + 1, high)
        userResp == Unmarshal(msgData)
    IN  [Fails(method, r, userResp.err) EXCEPT
            !.user = userResp.user, !.low = low, !.high = high,
            !.len = Len(responseData)]

\* GRPCWebClient.ValidateToken(ctx, token).
GRPCWebClientValidateToken ==
    /\ reply.stage = "none"
    /\ \E r \in Responses : reply' = Parse("ValidateToken", r)
    /\ UNCHANGED <<avatarService, history, request>>

\* GRPCWebClient.GetUserById(ctx, userId).
GRPCWebClientGetUserById ==
    /\ reply.stage = "none"
    /\ \E r \in Responses : reply' = Parse("GetUserById", r)
    /\ UNCHANGED <<avatarService, history, request>>

\* One call of the gRPC-Web client; no avatar operation is running.
InitFrame ==
    /\ Start
    /\ opsLeft = 0
    /\ faultsLeft = 0

NextFrame ==
    \/ GRPCWebClientValidateToken
    \/ GRPCWebClientGetUserById

SpecFrame == InitFrame /\ [][NextFrame]_vars

(* ===================== what the claims talk about ====================== *)

\* The positions in a record of calls of the calls to name; rollback tells
\* AddAvatar's compensating deletes from DeleteMyAvatar's deletes.
Made(log, name, rollback) ==
    {i \in 1..Len(log) : log[i].call = name /\ log[i].rollback = rollback}

Count(log, name, rollback) == Cardinality(Made(log, name, rollback))

Ok(log, name, rollback) ==
    \E i \in Made(log, name, rollback) : log[i].out = "ok"

NotOk(log, name, rollback) ==
    \E i \in Made(log, name, rollback) : log[i].out # "ok"

\* The operation that returned last is an Add / a DeleteByOwner.
AddReturned == returned.kind = "add"

DeleteReturned == returned.kind = "delete"

ReturnedError == returned.result.err # ""

\* The three writes of an Add.
Writes == {"UploadAvatar", "SetAvatarMetadata", "SetGUIDByUsername"}

\* The two compensating deletes of an Add.
Rollbacks == {"DeleteAvatarMetadata", "DeleteAvatar"}

\* The Add that returned: its blob write succeeded, its metadata write failed.
MetadataWriteFailed ==
    /\ AddReturned
    /\ Ok(returned.calls, "UploadAvatar", FALSE)
    /\ NotOk(returned.calls, "SetAvatarMetadata", FALSE)

\* The Add that returned: blob and metadata written, the mapping write failed.
MappingWriteFailed ==
    /\ AddReturned
    /\ Ok(returned.calls, "UploadAvatar", FALSE)
    /\ Ok(returned.calls, "SetAvatarMetadata", FALSE)
    /\ NotOk(returned.calls, "SetGUIDByUsername", FALSE)

(* ------------------------------- C1 ------------------------------------ *)

\* C1 as stated: an Add whose blob write succeeded and whose metadata write
\* failed returns an error, and once it has returned no blob exists under
\* its guid.
C1_NoBlobAfterMetadataFailure ==
    MetadataWriteFailed =>
        /\ ReturnedError
        /\ returned.result.guid = NoGuid
        /\ ~blobs[returned.guid].present

\* C1, amended: such an Add returns an error and has issued the compensating
\* blob delete once; when that delete succeeded, no blob exists under its
\* guid once it has returned.
C1_BlobDeletedWhenRollbackSucceeds ==
    MetadataWriteFailed =>
        /\ ReturnedError
        /\ returned.result.guid = NoGuid
        /\ Count(returned.calls, "DeleteAvatar", TRUE) = 1
        /\ Ok(returned.calls, "DeleteAvatar", TRUE)
               => ~blobs[returned.guid].present

C1_Witness ==
    /\ MetadataWriteFailed
    /\ Ok(returned.calls, "DeleteAvatar", TRUE)
    /\ ~blobs[returned.guid].present

(* ------------------------------- C2 ------------------------------------ *)

\* C2 as stated: an Add whose blob and metadata writes succeeded and whose
\* mapping write failed returns an error, and once it has returned neither a
\* blob nor a metadata record exists under its guid.
C2_NothingLeftAfterMappingFailure ==
    MappingWriteFailed =>
        /\ ReturnedError
        /\ returned.result.guid = NoGuid
        /\ ~blobs[returned.guid].present
        /\ ~metadata[returned.guid].present

\* C2, amended: such an Add returns an error and has issued both compensating
\* deletes once; the metadata record is absent when its compensating delete
\* succeeded, and the blob is absent when its compensating delete succeeded.
C2_DeletedWhenRollbackSucceeds ==
    MappingWriteFailed =>
        /\ ReturnedError
        /\ returned.result.guid = NoGuid
        /\ Count(returned.calls, "DeleteAvatarMetadata", TRUE) = 1
        /\ Count(returned.calls, "DeleteAvatar", TRUE) = 1
        /\ Ok(returned.calls, "DeleteAvatarMetadata", TRUE)
               => ~metadata[returned.guid].present
        /\ Ok(returned.calls, "DeleteAvatar", TRUE)
               => ~blobs[returned.guid].present

C2_Witness ==
    /\ MappingWriteFailed
    /\ Ok(returned.calls, "DeleteAvatarMetadata", TRUE)
    /\ Ok(returned.calls, "DeleteAvatar", TRUE)
    /\ ~blobs[returned.guid].present
    /\ ~metadata[returned.guid].present

(* ------------------------------- C3 ------------------------------------ *)

\* C3: no compensating delete of an Add, made or being made, fails because
\* the request's context is done: the rollback is not cancellable.
C3_RollbackNotCancellable ==
    /\ \A p \in Procs : \A i \in 1..Len(calls[p]) :
           calls[p][i].rollback => calls[p][i].out # "cancelled"
    /\ \A i \in 1..Len(returned.calls) :
           returned.calls[i].rollback => returned.calls[i].out # "cancelled"

(* ------------------------------- C4 ------------------------------------ *)

AllWritesOk(log) == \A w \in Writes : Ok(log, w, FALSE)

SomeWriteFailed(log) == \E w \in Writes : NotOk(log, w, FALSE)

\* C4: an Add returns a non-empty guid (the one it generated) exactly when
\* its blob write, metadata write and mapping write all succeeded; when one
\* of them failed it returns an error and no guid; it never returns neither
\* or both.
C4_GuidIffAllWritesOk ==
    AddReturned =>
        /\ (returned.result.guid # NoGuid) <=> AllWritesOk(returned.calls)
        /\ SomeWriteFailed(returned.calls) =>
               ReturnedError /\ returned.result.guid = NoGuid
        /\ (returned.result.guid = NoGuid) <=> ReturnedError
        /\ returned.result.guid # NoGuid =>
               returned.result.guid = returned.guid

C4_Witness ==
    /\ AddReturned
    /\ returned.result.guid = returned.guid
    /\ returned.result.guid # NoGuid
    /\ AllWritesOk(returned.calls)

(* ------------------------------- C5 ------------------------------------ *)

\* The compensating deletes in a record of calls.
CountRollbacks(log) ==
    Cardinality({i \in 1..Len(log) : log[i].rollback})

\* No call is made twice.
EachOnce(log) ==
    \A i, j \in 1..Len(log) :
        (log[i].call = log[j].call /\ log[i].rollback = log[j].rollback)
            => i = j

\* C5: a successful Add made exactly one blob write, one metadata write, one
\* mapping write and no delete; a failed Add made at most one of each write
\* and 0, 1 or 2 compensating deletes as the blob write, the metadata write
\* or the mapping write failed; no operation makes a call a second time.
C5_CallCounts ==
    /\ AddReturned =>
        LET log == returned.calls IN
        /\ \A i \in 1..Len(log) : log[i].call \in Writes \cup Rollbacks
        /\ \A i \in 1..Len(log) : log[i].rollback <=> log[i].call \in Rollbacks
        /\ EachOnce(log)
        /\ ~ReturnedError =>
               /\ \A w \in Writes : Count(log, w, FALSE) = 1
               /\ CountRollbacks(log) = 0
               /\ Len(log) = Cardinality(Writes)
        /\ ReturnedError =>
               /\ SomeWriteFailed(log)
               /\ NotOk(log, "UploadAvatar", FALSE) => CountRollbacks(log) = 0
               /\ NotOk(log, "SetAvatarMetadata", FALSE) =>
                      /\ CountRollbacks(log) = 1
                      /\ Count(log, "DeleteAvatar", TRUE) = 1
               /\ NotOk(log, "SetGUIDByUsername", FALSE) =>
                      /\ CountRollbacks(log) = Cardinality(Rollbacks)
                      /\ \A d \in Rollbacks : Count(log, d, TRUE) = 1
    /\ \A p \in Procs : EachOnce(calls[p])

C5_Witness ==
    /\ AddReturned
    /\ ReturnedError
    /\ NotOk(returned.calls, "SetGUIDByUsername", FALSE)
    /\ CountRollbacks(returned.calls) = Cardinality(Rollbacks)

(* ------------------------------- C6 ------------------------------------ *)

\* An Add in flight that is going to return an error: one of its writes failed.
WillFail(p) == kind[p] = "add" /\ SomeWriteFailed(calls[p])

\* C6: no owner's mapping points to the guid of an Add that returned an
\* error, or that is going to.
C6_FailedAddNotMapped ==
    \A u \in Owners :
        /\ mapping[u] \notin failedAdds
        /\ \A p \in Procs : WillFail(p) => mapping[u] # guid[p]

\* A failed Add for an owner who has a mapping.
C6_Witness ==
    /\ AddReturned
    /\ ReturnedError
    /\ returned.guid \in failedAdds
    /\ mapping[returned.username] # NoMapping

(* ------------------------------- C7 ------------------------------------ *)

\* The guid generated last.
LastGuid == nextGuid - 1

\* C7: when no operation is in flight and no external call has failed, a
\* metadata record exists for a guid exactly when a blob exists for it.
C7_BlobMetadataLockStep ==
    Quiescent =>
        \A g \in Guids : metadata[g].present <=> blobs[g].present

\* An Add and a DeleteByOwner for the same owner ran concurrently: the
\* owner's newest avatar is stored and the owner has no mapping (one after
\* the other, the delete would have removed the newest avatar).
C7_Witness ==
    /\ Quiescent
    /\ LastGuid \in Guids
    /\ blobs[LastGuid].present
    /\ metadata[LastGuid].present
    /\ mapping[metadata[LastGuid].username] = NoMapping
    /\ \E g \in Guids : g < LastGuid /\ ~blobs[g].present /\ ~metadata[g].present

(* ------------------------------- C8 ------------------------------------ *)

\* C8: when no operation is in flight and no external call has failed, every
\* mapping points to a guid that has a metadata record and a blob.
C8_MappingImpliesMetadata ==
    Quiescent =>
        \A u \in Owners :
            mapping[u] # NoMapping =>
                /\ metadata[mapping[u]].present
                /\ blobs[mapping[u]].present

\* A DeleteByOwner has returned success, avatars were deleted, and an owner
\* has a mapping.
C8_Witness ==
    /\ Quiescent
    /\ DeleteReturned
    /\ ~ReturnedError
    /\ \E u \in Owners :
           /\ mapping[u] # NoMapping
           /\ metadata[mapping[u]].present
           /\ \E g \in Guids : g < mapping[u] /\ ~metadata[g].present

(* ------------------------------- C9 ------------------------------------ *)

\* The DeleteByOwner that returned: its blob delete failed.
BlobDeleteFailed ==
    /\ DeleteReturned
    /\ NotOk(returned.calls, "DeleteAvatar", FALSE)

\* The step in which the blob delete of request p fails and p returns.
BlobDeleteFails(p) ==
    /\ pc[p] = "deleteBlob"
    /\ returned'.kind = "delete"
    /\ NotOk(returned'.calls, "DeleteAvatar", FALSE)
    /\ pc'[p] = "idle"

\* C9: a DeleteByOwner whose blob delete failed returns an error and made
\* no metadata delete and no mapping delete; the step in which the blob
\* delete fails is its last, and leaves the mapping, the metadata records
\* and the blobs as they were.
C9_BlobDeleteFailureIsFatal ==
    /\ [](BlobDeleteFailed =>
            /\ ReturnedError
            /\ Count(returned.calls, "DeleteAvatarMetadata", FALSE) = 0
            /\ Count(returned.calls, "DeleteUsernameMapping", FALSE) = 0
            /\ Len(returned.calls) = Len(<<"GetGUIDByUsername", "DeleteAvatar">>))
    /\ [][\A p \in Procs : BlobDeleteFails(p) => UNCHANGED stores]_vars

\* Sequentially: the mapping still resolves to the guid the delete resolved,
\* and its metadata record is still there.
C9_Witness ==
    /\ BlobDeleteFailed
    /\ ReturnedError
    /\ mapping[returned.username] = returned.guid
    /\ metadata[returned.guid].present
    /\ blobs[returned.guid].present

(* ------------------------------- C10 ----------------------------------- *)

\* The DeleteByOwner that returned: its blob delete succeeded.
BlobDeleted ==
    /\ DeleteReturned
    /\ Ok(returned.calls, "DeleteAvatar", FALSE)

\* C10: a DeleteByOwner whose blob delete succeeded returns success whatever
\* the metadata delete and the mapping delete returned; it made both, each
\* once; and it printed a warning for exactly the ones that failed.
C10_CleanupFailuresNotFatal ==
    BlobDeleted =>
        /\ ~ReturnedError
        /\ Count(returned.calls, "DeleteAvatarMetadata", FALSE) = 1
        /\ Count(returned.calls, "DeleteUsernameMapping", FALSE) = 1
        /\ ("failed to delete metadata" \in returned.warnings)
               <=> NotOk(returned.calls, "DeleteAvatarMetadata", FALSE)
        /\ ("failed to delete username mapping" \in returned.warnings)
               <=> NotOk(returned.calls, "DeleteUsernameMapping", FALSE)

\* Both cleanup calls failed, upstream (the context was not done).
C10_Witness ==
    /\ BlobDeleted
    /\ ~ReturnedError
    /\ \E i \in Made(returned.calls, "DeleteAvatarMetadata", FALSE) :
           returned.calls[i].out = "fail"
    /\ \E i \in Made(returned.calls, "DeleteUsernameMapping", FALSE) :
           returned.calls[i].out = "fail"
    /\ Cardinality(returned.warnings) = Cardinality(
           {"failed to delete metadata", "failed to delete username mapping"})

(* ------------------------------- C11 ----------------------------------- *)

\* The step in which the DeleteByOwner of request p removes the mapping of
\* its owner: the mapping delete succeeds, and there was a mapping.
RemovesMapping(p) ==
    /\ pc[p] = "deleteMapping"
    /\ pc'[p] = "idle"
    /\ mapping[args[p].username] # NoMapping
    /\ mapping'[args[p].username] = NoMapping

DeletedTwice(i, j) ==
    /\ i < j
    /\ history[i].kind = "delete"
    /\ history[j].kind = "delete"
    /\ history[i].username = history[j].username
    /\ \A k \in (i + 1)..(j - 1) : history[k].username # history[i].username

Succeeded(op) == op.result.err = ""

\* What DeleteByOwner returns for an owner without a mapping.
DeleteNotFound(op) == op.result.err = "avatar not found for username"

\* C12 as stated: of two DeleteByOwners for the same owner called in
\* sequence with no other operation for that owner in between, when the
\* first returned success the second returns NotFound.
C12_SecondDeleteNotFound ==
    \A i, j \in 1..Len(history) :
        (DeletedTwice(i, j) /\ Succeeded(history[i]))
            => DeleteNotFound(history[j])

\* C12, amended: when the first returned success and its mapping delete did
\* not fail, the second returns NotFound.
C12_SecondDeleteNotFoundWhenMappingDeleted ==
    \A i, j \in 1..Len(history) :
        (/\ DeletedTwice(i, j)
         /\ Succeeded(history[i])
         /\ Ok(history[i].calls, "DeleteUsernameMapping", FALSE))
            => DeleteNotFound(history[j])

\* Add, DeleteByOwner, DeleteByOwner for one owner: the first delete removed
\* the avatar and the mapping, the second read the mapping and found none.
C12_Witness ==
    \E i, j \in 1..Len(history) :
        /\ DeletedTwice(i, j)
        /\ Succeeded(history[i])
        /\ Ok(history[i].calls, "DeleteUsernameMapping", FALSE)
        /\ Ok(history[j].calls, "GetGUIDByUsername", FALSE)
        /\ DeleteNotFound(history[j])
        /\ Len(history[j].calls) = 1

(* ------------------------------- C13 ----------------------------------- *)

\* What GetByOwner returns for an owner without a mapping.
GetNotFound(op) == op.result.err = "username not found"

\* The operation reported NotFound.
ReportsNotFound(op) ==
    \/ op.kind = "delete" /\ DeleteNotFound(op)
    \/ op.kind = "get" /\ GetNotFound(op)

\* The operation read the mapping of its owner and there was none: the read
\* succeeded, it was the only call, and the owner has no mapping (nothing
\* has run since the operation returned).
FoundNoMapping(op) ==
    /\ Len(op.calls) = 1
    /\ Ok(op.calls, "GetGUIDByUsername", FALSE)
    /\ mapping[op.username] = NoMapping

\* C13: a GetByOwner or DeleteByOwner reports NotFound exactly when its
\* owner has no mapping; when the read of the mapping failed or was
\* cancelled it reports another error, never NotFound.
C13_NotFoundOnlyWithoutMapping ==
    (Quiescent /\ returned.kind \in {"get", "delete"}) =>
        (ReportsNotFound(returned) <=> FoundNoMapping(returned))

(* ------------------------------- C14 ----------------------------------- *)

\* The calls of a GetByOwner.
Lookups == {"GetGUIDByUsername", "GetAvatarPresignedURL"}

\* The URL of the blob of guid g.
URLFor(g) == [key |-> g, expires |-> ExpiresIn]

\* history[i] is a DeleteByOwner that returned success after its blob delete
\* succeeded and its mapping delete failed, history[j] the next operation for
\* that owner, a GetByOwner.
GetAfterDanglingDelete(i, j) ==
    /\ i < j
    /\ history[i].kind = "delete"
    /\ Succeeded(history[i])
    /\ Ok(history[i].calls, "DeleteAvatar", FALSE)
    /\ NotOk(history[i].calls, "DeleteUsernameMapping", FALSE)
    /\ history[j].kind = "get"
    /\ history[j].username = history[i].username
    /\ \A k \in (i + 1)..(j - 1) : history[k].username # history[i].username

\* C14: a GetByOwner calls nothing but the read of the mapping and the URL
\* generation; whenever its owner has a mapping and the URL generation
\* succeeded it returns the URL of the guid the mapping points to, whether
\* or not a blob or a metadata record exists for it.  After a DeleteByOwner
\* whose blob delete succeeded and whose mapping delete failed, the next
\* GetByOwner for that owner, when its URL generation succeeded, returns the
\* URL of the deleted guid, not NotFound.
C14_GetDependsOnlyOnMapping ==
    /\ (Quiescent /\ returned.kind = "get") =>
           /\ \A i \in 1..Len(returned.calls) :
                  returned.calls[i].call \in Lookups
           /\ EachOnce(returned.calls)
           /\ (/\ mapping[returned.username] # NoMapping
               /\ Ok(returned.calls, "GetAvatarPresignedURL", FALSE))
                  => /\ Succeeded(returned)
                     /\ returned.result.guid
                            = URLFor(mapping[returned.username])
    /\ \A i, j \in 1..Len(history) :
           (/\ GetAfterDanglingDelete(i, j)
            /\ Ok(history[j].calls, "GetAvatarPresignedURL", FALSE))
               => /\ Succeeded(history[j])
                  /\ history[j].result.guid = URLFor(history[i].guid)

\* Add, DeleteByOwner with the mapping delete failing, GetByOwner: the URL
\* returned is the one of a blob that is no longer stored.
C14_Witness ==
    /\ Quiescent
    /\ returned.kind = "get"
    /\ Succeeded(returned)
    /\ returned.result.guid = URLFor(mapping[returned.username])
    /\ ~blobs[mapping[returned.username]].present
    /\ \E i, j \in 1..Len(history) :
           /\ GetAfterDanglingDelete(i, j)
           /\ j = Len(history)
           /\ history[j].result.guid = URLFor(history[i].guid)

(* ------------------------------- C15 ----------------------------------- *)

\* The reads of the mapping of owner u in a record of calls that returned a
\* guid.
Resolved(log, u) ==
    {i \in Made(log, "GetGUIDByUsername", FALSE) :
        log[i].username = u /\ log[i].guid # NoGuid}

\* The guid the mapping of u held when it was read (the last time, when u is
\* in the list twice).
HeldAtLookup(log, u) ==
    log[CHOOSE i \in Resolved(log, u) : \A j \in Resolved(log, u) : j <= i].guid

\* The URL generation for owner u succeeded.
Signed(log, u) ==
    \E i \in Made(log, "GetAvatarPresignedURL", FALSE) :
        log[i].username = u /\ log[i].out = "ok"

\* The owners in the result of a batch lookup.
InResult(op) == {u \in Owners : op.result.guid[u] # NoURL}

\* What the read of a mapping that request p makes in this step returned.
LookedUp(p) ==
    IF pc'[p] = "idle" THEN returned'.calls[Len(returned'.calls)]
    ELSE calls'[p][Len(calls'[p])]

\* C15: a batch lookup returns without error; its result holds exactly the
\* owners whose mapping was read with success and whose URL generation
\* succeeded, each with the URL of the guid its mapping held when it was
\* read: a read of the mapping returns the guid the mapping points to at
\* that step, and nothing when there is no mapping or the read fails.
C15_BatchOmitsWhatFailed ==
    /\ [](returned.kind = "getMany" =>
             /\ Succeeded(returned)
             /\ \A u \in Owners :
                    /\ u \in InResult(returned)
                           <=> /\ Resolved(returned.calls, u) # {}
                               /\ Signed(returned.calls, u)
                    /\ u \in InResult(returned) =>
                           returned.result.guid[u]
                               = URLFor(HeldAtLookup(returned.calls, u)))
    /\ [][\A p \in Procs :
             (pc[p] = "lookupMany" /\ (pc'[p] = "idle" \/ calls'[p] # calls[p]))
             => LET c == LookedUp(p) IN
                /\ c.guid = IF c.out = "ok" THEN mapping[c.username]
                                             ELSE NoGuid
                /\ c.username
                       = args[p].usernames[Len(calls[p]) + 1]]_vars

\* alice and bob were requested, both mappings were read with success, only
\* one of the two has a mapping: the result has one entry.
C15_Witness ==
    /\ returned.kind = "getMany"
    /\ Succeeded(returned)
    /\ \A u \in Owners :
           \E i \in Made(returned.calls, "GetGUIDByUsername", FALSE) :
               returned.calls[i].username = u /\ returned.calls[i].out = "ok"
    /\ Cardinality(InResult(returned)) = 1

(* ------------------------------- C18 ----------------------------------- *)

\* The context of the operation was done before its last call returned.
Cancelled(op) == \E i \in 1..Len(op.calls) : op.calls[i].out = "cancelled"

\* C18: an Add, GetByOwner or DeleteByOwner whose context became done
\* before its last external call makes no call with an effect after that
\* and returns an error; a DeleteByOwner whose context became done between
\* the blob delete and the metadata and mapping deletes does not return
\* success.
C18_CancellationSurfaced ==
    (returned.kind \in {"add", "get", "delete"} /\ Cancelled(returned)) =>
        /\ ~Succeeded(returned)
        /\ \A i, j \in 1..Len(returned.calls) :
               (i < j /\ returned.calls[i].out = "cancelled")
                   => returned.calls[j].out = "cancelled"

(* ------------------------------- C19 ----------------------------------- *)

\* The operation op returned while the Add of guid g for owner u was in
\* flight.
ReturnedDuringAdd(op, u, g) ==
    [kind |-> "add", username |-> u, guid |-> g] \in op.during

\* history[i] and history[j] are two Adds for the same owner that ran
\* concurrently and both succeeded; history[j] returned last.
ConcurrentAdds(i, j) ==
    /\ i < j
    /\ history[i].kind = "add"
    /\ history[j].kind = "add"
    /\ history[i].username = history[j].username
    /\ Succeeded(history[i])
    /\ Succeeded(history[j])
    /\ ReturnedDuringAdd(history[i], history[j].username, history[j].guid)

\* No DeleteByOwner for owner u has returned or is in flight.
NoDeleteFor(u) ==
    /\ \A k \in 1..Len(history) :
           history[k].kind = "delete" => history[k].username # u
    /\ \A p \in Procs : kind[p] = "delete" => args[p].username # u

\* C19: when two Adds for the same owner ran concurrently and both succeeded
\* (and no DeleteByOwner ran for that owner), once both have returned the
\* mapping points to the guid of the Add whose mapping write came last, and
\* the blob and the metadata record of both Adds exist.
C19_LastMappingWriteWins ==
    \A i, j \in 1..Len(history) :
        (/\ ConcurrentAdds(i, j)
         /\ j = Len(history)
         /\ NoDeleteFor(history[j].username))
            => /\ mapping[history[j].username] = history[j].guid
               /\ blobs[history[i].guid].present
               /\ metadata[history[i].guid].present
               /\ blobs[history[j].guid].present
               /\ metadata[history[j].guid].present

\* The Add that started first wrote the mapping last: the mapping points to
\* its guid, the older of the two.
C19_Witness ==
    \E i, j \in 1..Len(history) :
        /\ ConcurrentAdds(i, j)
        /\ j = Len(history)
        /\ NoDeleteFor(history[j].username)
        /\ history[j].guid < history[i].guid
        /\ mapping[history[j].username] = history[j].guid
        /\ blobs[history[i].guid].present
        /\ metadata[history[i].guid].present

(* ------------------------------- C20 ----------------------------------- *)

\* history[i] is a DeleteByOwner that resolved and removed a guid and
\* returned success while a newer Add for the same owner was in flight;
\* that Add is history[j]: it wrote the mapping after the DeleteByOwner had
\* removed it.
AddAfterRacingDelete(i, j) ==
    /\ i < j
    /\ history[i].kind = "delete"
    /\ Succeeded(history[i])
    /\ Ok(history[i].calls, "DeleteUsernameMapping", FALSE)
    /\ history[j].kind = "add"
    /\ Succeeded(history[j])
    /\ history[j].username = history[i].username
    /\ history[i].guid < history[j].guid
    /\ ReturnedDuringAdd(history[i], history[j].username, history[j].guid)

\* No operation for owner u is in flight.
NoneInFlightFor(u) == \A p \in Procs : InFlight(p) => args[p].username # u

\* C20: when, with no call failing, a DeleteByOwner resolved and removed the
\* older guid and returned success while an Add for the same owner was in
\* flight, and the Add wrote the mapping after that, then once both have
\* returned the owner has a mapping to the new guid, whose blob and
\* metadata record exist, and the older blob and metadata record are gone.
\* Such an interleaving is reachable (C20_Witness).
C20_AddAfterDeleteRecreatesMapping ==
    \A i, j \in 1..Len(history) :
        (/\ AddAfterRacingDelete(i, j)
         /\ j = Len(history)
         /\ NoneInFlightFor(history[j].username))
            => /\ mapping[history[j].username] = history[j].guid
               /\ blobs[history[j].guid].present
               /\ metadata[history[j].guid].present
               /\ ~blobs[history[i].guid].present
               /\ ~metadata[history[i].guid].present

C20_Witness ==
    \E i, j \in 1..Len(history) :
        /\ AddAfterRacingDelete(i, j)
        /\ j = Len(history)
        /\ Quiescent
        /\ mapping[history[j].username] = history[j].guid
        /\ blobs[history[j].guid].present
        /\ metadata[history[j].guid].present
        /\ ~blobs[history[i].guid].present

(* ------------------------------- C16 ----------------------------------- *)

\* r is a POST /api/avatars whose body is a JSON object with no usernames
\* field, with null for it, or with the empty list.
EmptyBatch(r) ==
    /\ r.method = "POST"
    /\ r.path = "/api/avatars"
    /\ r.body.kind = "json"
    /\ (r.body.field # "list" \/ r.body.usernames = <<>>)

\* C16: a POST /api/avatars whose usernames list is empty or absent calls
\* neither the coordinator nor a store, and the response written to it is
\* 400: its goroutine never holds an operation, and no step taken while it
\* is served changes the coordinator or the stores.
C16_EmptyBatchRejectedAtBoundary ==
    /\ [](\A p \in Procs :
              EmptyBatch(request[p])
                  => /\ ~InFlight(p)
                     /\ calls[p] = <<>>
                     /\ ~request[p].service
                     /\ (request[p].stage = "answered"
                            => request[p].status = StatusBadRequest))
    /\ [][(\E p \in Procs : EmptyBatch(request[p]))
              => UNCHANGED avatarService]_vars

\* The empty list has been answered 400 by the handler.
C16_Witness ==
    \E p \in Procs :
        /\ EmptyBatch(request[p])
        /\ request[p].body.field = "list"
        /\ request[p].stage = "answered"
        /\ request[p].handled
        /\ request[p].status = StatusBadRequest

(* ------------------------------- C17 ----------------------------------- *)

\* r matched a route other than POST /api/avatars.
Gated(r) == r.handler \notin {"", "GetAvatarsByUsernames"}

\* The verifier was called once for r, with the token of r's header, and
\* returned success.
Verified(r) == r.verifier = <<[token |-> Token(r.header), out |-> "ok"]>>

\* The handler of r has been called.
HandlerCalled(r) == r.stage \in {"handler", "service"} \/ r.handled

\* The last call of the verifier for r returned an error.
VerifierFailed(r) ==
    r.verifier # <<>> /\ r.verifier[Len(r.verifier)].out = "fail"

\* C17: the handler of a request to a route other than POST /api/avatars is
\* called only after the verifier returned success for the token of that
\* request, and an operation of the coordinator runs only inside a handler;
\* a request without Authorization header or with an empty token is
\* answered 401, the verifier not called; a request the verifier fails is
\* answered 401, the handler not called; the handler of POST /api/avatars
\* is called with no call of the verifier.
C17_AuthenticationGate ==
    \A p \in Procs :
        LET r == request[p] IN
        /\ InFlight(p) => r.stage = "service" /\ HandlerCalled(r)
        /\ (Gated(r) /\ HandlerCalled(r)) => Verified(r)
        /\ (Gated(r) /\ (r.header = <<>> \/ Token(r.header) = <<>>))
               => /\ r.verifier = <<>>
                  /\ ~HandlerCalled(r)
                  /\ r.stage \in {"auth", "answered"}
                  /\ (r.stage = "answered" => r.status = StatusUnauthorized)
        /\ VerifierFailed(r)
               => /\ r.stage = "answered"
                  /\ r.status = StatusUnauthorized
                  /\ ~HandlerCalled(r)
        /\ r.handler = "GetAvatarsByUsernames" => r.verifier = <<>>

\* An upload whose header held the token in quotes behind the Bearer prefix
\* has been verified, stored and answered 200.
C17_Witness ==
    \E p \in Procs :
        /\ request[p].handler = "AddAvatar"
        /\ request[p].header =
               <<"q", "Bearer", "sp", "sp", "tokB", "q", "sp">>
        /\ Token(request[p].header) = <<"tokB">>
        /\ Verified(request[p])
        /\ request[p].user = "bob"
        /\ request[p].service
        /\ request[p].stage = "answered"
        /\ request[p].status = StatusOK

(* ------------------------------- C21 ----------------------------------- *)

\* Every call of the operation succeeded.
NoCallFailed(op) == \A c \in 1..Len(op.calls) : op.calls[c].out = "ok"

\* history[i] and history[j] are two Adds for the same owner that succeeded,
\* called in sequence with no other operation for that owner in between.
AddedTwice(i, j) ==
    /\ i < j
    /\ history[i].kind = "add"
    /\ history[j].kind = "add"
    /\ history[i].username = history[j].username
    /\ Succeeded(history[i])
    /\ Succeeded(history[j])
    /\ \A k \in (i + 1)..(j - 1) : history[k].username # history[i].username

\* history[k] is the next operation for the owner of history[j], a
\* DeleteByOwner that returned success.
DeletedNext(j, k) ==
    /\ j < k
    /\ history[k].kind = "delete"
    /\ history[k].username = history[j].username
    /\ Succeeded(history[k])
    /\ \A l \in (j + 1)..(k - 1) : history[l].username # history[j].username

\* After the second Add the mapping points to its guid, another than the
\* first's, and the blob and the metadata record of the first exist.
OldAvatarKept(i, j) ==
    /\ history[i].result.guid # history[j].result.guid
    /\ mapping[history[j].username] = history[j].result.guid
    /\ blobs[history[i].result.guid].present
    /\ metadata[history[i].result.guid].present

\* After the DeleteByOwner the blob and the metadata record of the second
\* Add and the mapping are gone, the blob and the metadata record of the
\* first exist.
NewAvatarRemoved(i, j) ==
    /\ ~blobs[history[j].result.guid].present
    /\ ~metadata[history[j].result.guid].present
    /\ mapping[history[j].username] = NoMapping
    /\ blobs[history[i].result.guid].present
    /\ metadata[history[i].result.guid].present

\* C21 as stated: after two successful Adds for one owner in sequence the
\* mapping points to the second guid and the first blob and metadata record
\* exist; after a following DeleteByOwner that returned success the second
\* blob, its metadata record and the mapping are gone and the first blob and
\* metadata record are in place.
C21_ReuploadKeepsOldAvatar ==
    \A i, j \in 1..Len(history) :
        (AddedTwice(i, j) /\ Quiescent)
            => /\ j = Len(history) => OldAvatarKept(i, j)
               /\ \A k \in 1..Len(history) :
                      (DeletedNext(j, k) /\ k = Len(history))
                          => NewAvatarRemoved(i, j)

\* C21, amended: the same, for a following DeleteByOwner none of whose
\* calls failed.
C21_ReuploadKeepsOldAvatarCleanDelete ==
    \A i, j \in 1..Len(history) :
        (AddedTwice(i, j) /\ Quiescent)
            => /\ j = Len(history) => OldAvatarKept(i, j)
               /\ \A k \in 1..Len(history) :
                      (/\ DeletedNext(j, k)
                       /\ k = Len(history)
                       /\ NoCallFailed(history[k]))
                          => NewAvatarRemoved(i, j)

\* Add, Add, DeleteByOwner for one owner, no call failing: the second
\* avatar and the mapping are gone, the first avatar is an orphan.
C21_Witness ==
    \E i, j, k \in 1..Len(history) :
        /\ AddedTwice(i, j)
        /\ DeletedNext(j, k)
        /\ k = Len(history)
        /\ Quiescent
        /\ NoCallFailed(history[k])
        /\ history[k].guid = history[j].result.guid
        /\ NewAvatarRemoved(i, j)

(* ------------------------------- C22 ----------------------------------- *)

\* history[j] is the next operation after history[i] for the owner of
\* history[i].
NextFor(i, j) ==
    /\ i < j
    /\ history[j].username = history[i].username
    /\ \A k \in (i + 1)..(j - 1) : history[k].username # history[i].username

\* history[i] is an Add that succeeded and history[j] the next operation for
\* its owner, a GetByOwner none of whose calls failed.
GetAfterAdd(i, j) ==
    /\ NextFor(i, j)
    /\ history[i].kind = "add"
    /\ Succeeded(history[i])
    /\ history[j].kind = "get"
    /\ NoCallFailed(history[j])

\* history[j] is a DeleteByOwner that succeeded with no call failing and
\* history[k] the next operation for its owner, a GetByOwner whose read of
\* the mapping did not fail.
GetAfterDelete(j, k) ==
    /\ NextFor(j, k)
    /\ history[j].kind = "delete"
    /\ Succeeded(history[j])
    /\ NoCallFailed(history[j])
    /\ history[k].kind = "get"
    /\ Ok(history[k].calls, "GetGUIDByUsername", FALSE)

\* The object under avatars/<guid of op> is what op, an Add, was given.
StoredAsGiven(op) ==
    blobs[op.result.guid] =
        [present |-> TRUE, content |-> op.args.file,
         contentType |-> op.args.contentType, size |-> op.args.size]

\* C22: a GetByOwner that follows a successful Add for its owner (its own
\* calls not failing) returns the URL of the Add's guid, and the object
\* under that guid has the bytes, the content type and the size given to
\* the Add; a GetByOwner that follows a DeleteByOwner that succeeded with no
\* failing call returns NotFound.
C22_RoundTrip ==
    /\ \A i, j \in 1..Len(history) :
           GetAfterAdd(i, j)
               => /\ history[j].result =
                         [guid |-> URLFor(history[i].result.guid), err |-> ""]
                  /\ (j = Len(history) /\ Quiescent)
                         => StoredAsGiven(history[i])
    /\ \A j, k \in 1..Len(history) :
           GetAfterDelete(j, k) => GetNotFound(history[k])

\* The owner uploaded one payload, then another, then asked: the URL is the
\* one of the second guid, which holds the second payload.
C22_Witness ==
    \E i, j \in 1..Len(history) :
        /\ GetAfterAdd(i, j)
        /\ j = Len(history)
        /\ Quiescent
        /\ i > 1
        /\ history[i - 1].kind = "add"
        /\ Succeeded(history[i - 1])
        /\ history[i - 1].username = history[i].username
        /\ history[i - 1].args.file # history[i].args.file
        /\ history[j].result.guid = URLFor(history[i].result.guid)
        /\ StoredAsGiven(history[i])
        /\ blobs[history[i].result.guid].content = "png bytes"

(* ------------------------------- C23 ----------------------------------- *)

\* The handlers of GET /api/avatar, GET /api/avatar/me and
\* DELETE /api/avatar/me.
Translating == {"GetAvatar", "GetMyAvatar", "DeleteMyAvatar"}

\* The request has been answered by one of them after its call of the
\* coordinator returned: returned holds what the call returned.
AnsweredAfterCall(r) ==
    /\ r.stage = "answered"
    /\ r.service
    /\ r.handler \in Translating

\* The coordinator's call read the mapping of the owner, found none and
\* returned an error.
ReturnedNotFound ==
    /\ Len(returned.calls) = 1
    /\ Ok(returned.calls, "GetGUIDByUsername", FALSE)
    /\ ReturnedError

\* C23: on the three routes a coordinator NotFound is answered 404 and any
\* other coordinator failure 500; DELETE /api/avatar/me is answered 204
\* exactly when DeleteByOwner returned success.
C23_StatusTranslation ==
    \A p \in Procs :
        AnsweredAfterCall(request[p])
            => /\ ReturnedNotFound => request[p].status = StatusNotFound
               /\ (ReturnedError /\ ~ReturnedNotFound)
                      => request[p].status = StatusInternalServerError
               /\ request[p].handler = "DeleteMyAvatar"
                      => (request[p].status = StatusNoContent <=> ~ReturnedError)

(* ------------------------------- C24 ----------------------------------- *)

\* r is a POST /api/avatar/url that carries the token of a user.
UrlUpload(r) ==
    /\ r.method = "POST"
    /\ r.path = "/api/avatar/url"
    /\ Users(Token(r.header)) # NoUser

\* The remote fetch of r answered 200.
Fetched(r) ==
    r.body.url # "" /\ r.body.remote \in {"200 with length", "200 without length"}

\* The handler of r called Add once for the user of r's token: the call is
\* the one that returned last.
AddedOnce(r) ==
    /\ r.service
    /\ returned.kind = "add"
    /\ returned.username = Users(Token(r.header))
    /\ Count(returned.calls, "UploadAvatar", FALSE) = 1

\* C24: an authenticated POST /api/avatar/url is served by a handler; when
\* it has been answered, Add was called once for the caller's username if
\* the remote fetch answered 200, with or without a Content-Length, and was
\* not called if the url is empty, the fetch failed or the remote status
\* is not 200.
C24_UploadByUrlAddsOnce ==
    \A p \in Procs :
        LET r == request[p] IN
        (UrlUpload(r) /\ r.stage = "answered")
            => /\ r.handler # ""
               /\ Fetched(r) => AddedOnce(r)
               /\ ~Fetched(r) => ~r.service

(* ------------------------------- C25 ----------------------------------- *)

\* The generic binary type.
OctetStream == "application/octet-stream"

\* The step of request p writes the metadata record of its guid.
WritesMetadata(p) ==
    /\ kind[p] = "add"
    /\ ~metadata[guid[p]].present
    /\ metadata'[guid[p]].present

\* C25: a metadata record written by an Add that the HTTP surface called has
\* a mime_type that is not empty and is the content type of the blob
\* written under the same guid; when the part of the upload had no
\* Content-Type, both are application/octet-stream.
C25_ContentTypeDefault ==
    [][\A p \in Procs :
           (WritesMetadata(p) /\ request[p].service)
               => LET md == metadata'[guid[p]]
                      blob == blobs[guid[p]]
                  IN  /\ md.mimeType # ""
                      /\ blob.present
                      /\ md.mimeType = blob.contentType
                      /\ request[p].body.file.contentType = ""
                             => md.mimeType = OctetStream]_vars

\* An upload whose part had no Content-Type has been stored: blob and
\* metadata record have the generic binary type.
C25_Witness ==
    \E p \in Procs :
        /\ request[p].handler = "AddAvatar"
        /\ request[p].service
        /\ request[p].body.file.contentType = ""
        /\ request[p].stage = "answered"
        /\ request[p].status = StatusOK
        /\ metadata[returned.result.guid].present
        /\ metadata[returned.result.guid].mimeType = OctetStream
        /\ blobs[returned.result.guid].contentType = OctetStream

(* ------------------------------- C26 ----------------------------------- *)

\* In the record of calls log the mapping write failed, the next call is
\* the compensating metadata delete, and the one after it, the last, the
\* compensating blob delete.
CompensatedInReverse(log) ==
    \E i \in 1..Len(log) :
        /\ log[i].call = "SetGUIDByUsername"
        /\ Failed(log[i].out)
        /\ Len(log) = i + 2
        /\ log[i + 1].call = "DeleteAvatarMetadata"
        /\ log[i + 1].rollback
        /\ log[i + 2].call = "DeleteAvatar"
        /\ log[i + 2].rollback

\* C26: an Add whose mapping write failed has, when it returns, issued the
\* compensating metadata delete and after it the compensating blob delete,
\* whatever the metadata delete returned; an Add in flight has issued no
\* compensating blob delete that a compensating metadata delete did not
\* precede.
C26_ReverseOrderCompensation ==
    /\ (AddReturned /\ NotOk(returned.calls, "SetGUIDByUsername", FALSE))
           => CompensatedInReverse(returned.calls)
    /\ \A p \in Procs :
           (kind[p] = "add" /\ NotOk(calls[p], "SetGUIDByUsername", FALSE))
               => \A j \in Made(calls[p], "DeleteAvatar", TRUE) :
                      \E i \in Made(calls[p], "DeleteAvatarMetadata", TRUE) :
                          i < j

\* The mapping write failed, the metadata delete failed, and the blob delete
\* was issued all the same.
C26_Witness ==
    /\ AddReturned
    /\ NotOk(returned.calls, "SetGUIDByUsername", FALSE)
    /\ NotOk(returned.calls, "DeleteAvatarMetadata", TRUE)
    /\ CompensatedInReverse(returned.calls)
    /\ Ok(returned.calls, "DeleteAvatar", TRUE)

(* ------------------------------- C27 ----------------------------------- *)

\* A compensating delete of the Add that returned failed.
RollbackFailed == \E d \in Rollbacks : NotOk(returned.calls, d, TRUE)

\* The Add that returned reports the write that failed.
OriginalFailureReturned ==
    /\ NotOk(returned.calls, "SetAvatarMetadata", FALSE)
           => returned.result.err = "failed to save metadata"
    /\ NotOk(returned.calls, "SetGUIDByUsername", FALSE)
           => returned.result.err = "failed to save username mapping"

\* What a compensating delete of the Add that returned failed to remove is
\* in the store.
OrphanStays ==
    /\ NotOk(returned.calls, "DeleteAvatar", TRUE)
           => blobs[returned.guid].present
    /\ NotOk(returned.calls, "DeleteAvatarMetadata", TRUE)
           => metadata[returned.guid].present

\* C27: an Add one of whose compensating deletes failed returns the error
\* of the write that failed, has reported the failed delete, has attempted
\* each compensating delete at most once, and what the delete failed to
\* remove stays in the store.
C27_FailedCompensationReported ==
    (AddReturned /\ RollbackFailed)
        => /\ OriginalFailureReturned
           /\ returned.warnings # {}
           /\ \A d \in Rollbacks : Count(returned.calls, d, TRUE) <= 1
           /\ OrphanStays

(* ------------------------------- C28 ----------------------------------- *)

\* The blob write of the Add that returned failed.
UploadFailed == AddReturned /\ NotOk(returned.calls, "UploadAvatar", FALSE)

\* Request p, an Add, makes its blob write and returns: the write failed.
ReturnsFromUpload(p) ==
    kind[p] = "add" /\ pc[p] = "upload" /\ pc'[p] = "idle"

\* C28: an Add whose blob write fails returns an error having made no other
\* call, and between its start and its return it leaves every metadata
\* record, every mapping and every other blob as they are.
C28_UploadFailureChangesNothing ==
    /\ [](UploadFailed => (ReturnedError /\ Len(returned.calls) = 1))
    /\ [][\A p \in Procs :
            /\ (pc[p] = "idle" /\ pc'[p] = "upload") => stores' = stores
            /\ ReturnsFromUpload(p)
                   => /\ metadata' = metadata
                      /\ mapping' = mapping
                      /\ \A g \in Guids \ {guid[p]} : blobs'[g] = blobs[g]]_vars

C28_Witness ==
    /\ UploadFailed
    /\ mapping[returned.username] # NoMapping
    /\ metadata[mapping[returned.username]].present
    /\ blobs[mapping[returned.username]].present
    /\ ~blobs[returned.guid].present

(* ------------------------------- C29 ----------------------------------- *)

\* The external calls an operation of kind k with arguments a makes at most.
MostCalls(k, a) ==
    CASE k = "add" -> 5
      [] k = "get" -> 2
      [] k = "getMany" -> 2 * Len(a.usernames)
      [] k = "delete" -> 4

\* The calls of a batch lookup: the i-th GetGUIDByUsername is for the i-th
\* username of the list, and no username gets two URLs signed.
EachOncePerUsername(log, usernames) ==
    /\ \A i \in Made(log, "GetGUIDByUsername", FALSE) :
           i <= Len(usernames) /\ log[i].username = usernames[i]
    /\ \A i, j \in Made(log, "GetAvatarPresignedURL", FALSE) :
           log[i].username = log[j].username => i = j

\* Request p, waiting for one more call to return, stays within the calls of
\* its operation and has made no call twice.
WithinCalls(p) ==
    /\ Len(calls[p]) + 1 <= MostCalls(kind[p], args[p])
    /\ IF kind[p] = "getMany"
       THEN EachOncePerUsername(calls[p], args[p].usernames)
       ELSE EachOnce(calls[p])

\* The operation that returned made no more calls than its kind allows (a
\* batch lookup: than twice its lookups, one for each username).
ReturnedWithinCalls ==
    /\ returned.kind \in {"add", "get", "delete"}
           => /\ Len(returned.calls) <= MostCalls(returned.kind, NoArgs)
              /\ EachOnce(returned.calls)
    /\ returned.kind = "getMany"
           => Len(returned.calls)
                  <= 2 * Count(returned.calls, "GetGUIDByUsername", FALSE)

\* C29: when every external call returns in the end, every Add, GetByOwner,
\* GetManyByOwners and DeleteByOwner that started returns, after at most 5,
\* 2, twice the number of usernames asked for, and 4 external calls, none of
\* them made a second time.  An operation that started returns: at every
\* moment its goroutine is, or will be, serving nothing.
C29_OperationsTerminate ==
    /\ [](\A p \in Procs : InFlight(p) => WithinCalls(p))
    /\ [](ReturnedWithinCalls)
    /\ \A p \in Procs : []<>(~InFlight(p))

C29_Witness ==
    /\ AddReturned
    /\ Len(returned.calls) = 5
    /\ NotOk(returned.calls, "DeleteAvatarMetadata", TRUE)
    /\ NotOk(returned.calls, "DeleteAvatar", TRUE)

(* ------------------------------- C30 ----------------------------------- *)

Reads == {"get", "getMany"}

\* Request p, a GetByOwner or a GetManyByOwners, starts, has one of its
\* calls return, or returns.
ReadStep(p) ==
    /\ kind[p] \in Reads \/ kind'[p] \in Reads
    /\ pc'[p] # pc[p] \/ calls'[p] # calls[p]

\* C30: no step of a GetByOwner or of a GetManyByOwners, whether its calls
\* succeed or fail, changes a blob, a metadata record or a mapping.
C30_ReadsChangeNothing ==
    [][\A p \in Procs : ReadStep(p) => stores' = stores]_vars

\* A GetByOwner failed at its second call, and a GetManyByOwners would
\* succeed: the avatar of the owner is in the three stores.
C30_Witness ==
    /\ returned.kind = "get"
    /\ ReturnedError
    /\ Len(returned.calls) = 2
    /\ mapping[returned.username] # NoMapping
    /\ metadata[mapping[returned.username]].present
    /\ blobs[mapping[returned.username]].present

(* ------------------------------- C31 ----------------------------------- *)

\* The ids generated by the Adds for owner u: of those in flight and of those
\* that returned.
GeneratedFor(u) ==
    {guid[q] : q \in {r \in Procs : kind[r] = "add" /\ args[r].username = u}}
    \cup {history[i].guid :
             i \in {j \in 1..Len(history) :
                       history[j].kind = "add" /\ history[j].username = u}}

\* Request p, an Add or a DeleteByOwner, has one of its calls return.
OwnerStep(p) ==
    /\ kind[p] \in {"add", "delete"}
    /\ pc'[p] = "idle" \/ calls'[p] # calls[p]

\* Nothing of owner u changes: not the mapping, nor the blob or the metadata
\* record of an id generated for u.
Untouched(u) ==
    /\ mapping'[u] = mapping[u]
    /\ \A g \in GeneratedFor(u) :
           blobs'[g] = blobs[g] /\ metadata'[g] = metadata[g]

\* C31: no call of an Add or of a DeleteByOwner for one owner, whatever it
\* returns and whatever runs beside it, creates, changes or removes the
\* mapping of another owner, or the blob or the metadata record of an id
\* generated by an Add for another owner.
C31_OwnerIsolation ==
    [][\A p \in Procs :
          OwnerStep(p)
              => \A u \in Owners \ {args[p].username} : Untouched(u)]_vars

\* After the Add of one owner, an Add and a DeleteByOwner of another owner ran
\* beside each other, and the delete removed the avatar it found; the avatar
\* of the first owner is in the three stores.
C31_Witness ==
    /\ Len(history) = 3
    /\ history[1].username = Neighbour
    /\ history[2].kind = "add"
    /\ history[2].username = Owner
    /\ history[2].during # {}
    /\ history[3].kind = "delete"
    /\ history[3].username = Owner
    /\ Len(history[3].calls) = 4
    /\ mapping[Neighbour] = history[1].guid
    /\ metadata[history[1].guid].present
    /\ blobs[history[1].guid].present
    /\ ~blobs[history[2].guid].present

(* ------------------------------- C32 ----------------------------------- *)

\* The metadata record of the id owner u is mapped to, when there is one,
\* names u and that id.
AgreesOnOwner(u) ==
    (mapping[u] # NoMapping /\ metadata[mapping[u]].present)
        => /\ metadata[mapping[u]].username = u
           /\ metadata[mapping[u]].guid = mapping[u]

\* C32: in every state, for every mapping from an owner to an id whose
\* metadata record exists, the record's owner is that owner and its id is
\* that id.
C32_MappingAndMetadataAgree == \A u \in Owners : AgreesOnOwner(u)

\* Every owner is mapped to an id that has its metadata record.
C32_Witness ==
    \A u \in Owners :
        mapping[u] # NoMapping /\ metadata[mapping[u]].present

(* ------------------------------- C33 ----------------------------------- *)

\* The call has ended: it returned, or it panicked.
Ended == reply.stage \in {"returned", "panicked"}

\* C33: whatever the response body and the length it declares, a call of
\* ValidateToken or of GetUserById returns an error, or slices bytes the
\* response has: 5 <= 5+length (modulo 2^32) <= len(response).
C33_FrameParsingInBounds ==
    Ended => \/ reply.stage = "returned" /\ reply.err # ""
             \/ /\ reply.stage = "returned"
                /\ HeaderLen <= reply.high
                /\ reply.high <= reply.len

====
